---- MODULE Spec2Model ----
(***************************************************************************)
(* Model of cacack/speedtest_exporter: the /metrics handler with its       *)
(* TryLock gate (cmd/speedtest_exporter/main.go) and the scrape            *)
(* orchestration of the exporter (internal/exporter/exporter.go).          *)
(*                                                                         *)
(* Each inbound /metrics request is a process r.  Its handler either is    *)
(* rejected by the gate or runs CollectWithContext step by step: identity  *)
(* fetch, candidate fetch, selection, then ping/download/upload on every   *)
(* selected target, then the up and duration observations, and finally the *)
(* deferred Unlock.  Collaborator results are inputs chosen with \E.       *)
(***************************************************************************)
EXTENDS Integers, Sequences, FiniteSets

\* ---------------------------------------------------------------- bounds
\* concurrent inbound connections
NumReq == 2
\* length of the configured server_ids list
MaxIDs == 2

\* length of the -server_ids flag value, in characters
MaxFlagLen == 5

\* ------------------------------------------------------------- constants
\* "-1 picks the closest server"
Sentinel == -1
\* http.StatusServiceUnavailable, "Scrape already in progress"
StatusBusy == 503

\* http.StatusOK, the answer of promhttp when the gathering succeeds
StatusOK == 200
\* http.StatusInternalServerError, the answer of promhttp when it fails
StatusServerError == 500
\* time.Second / time.Nanosecond
NsPerSecond == 1000000000
\* thousandths in one unit of Server.Distance
DistanceScale == 1000

Req            == 1..NumReq
\* identifiers of the servers the directory can list
ServerIDSet    == {1, 2}
RequestLists   == UNION {[1..n -> ServerIDSet \cup {Sentinel}] : n \in 1..MaxIDs}
\* candidate lists: any servers of the directory, each at most once, in any order
CandidateLists == {s \in UNION {[1..n -> ServerIDSet] : n \in 0..Cardinality(ServerIDSet)} :
                     \A i, j \in 1..Len(s) : s[i] = s[j] => i = j}
FindModes      == {"lib", "err", "none"}

\* The caller identity of newTestUser.
TestUser == [IP |-> "1.2.3.4", Lat |-> "40.7128", Lon |-> "-74.0060", Isp |-> "TestISP"]
\* Caller identities the directory service can report.
Users ==
  {TestUser,
   [IP |-> "5.6.7.8", Lat |-> "51.5074", Lon |-> "-0.1278", Isp |-> "OtherISP"]}
\* The zero speedtest.User.
NoUser == [IP |-> "", Lat |-> "", Lon |-> "", Isp |-> ""]

\* The speedtest.Server the directory lists under an identifier, before any
\* stage has run on it, as newTestServer builds it.  Distance is in
\* thousandths (123.456).
NewServer(id) ==
  [ID |-> id, Name |-> "TestServer", Country |-> "US",
   Lat |-> "34.0522", Lon |-> "-118.2437",
   Distance |-> 123456,
   Latency |-> 0, DLSpeed |-> 0, ULSpeed |-> 0]

\* mockRunner{}: a runner whose stages write zero values.
mockRunner == [latency |-> 0, dlSpeed |-> 0, ulSpeed |-> 0]

\* newTestRunner(): what its successful stages write to the server they are
\* given: 10 ms in nanoseconds, 100000000 B/s and 50000000 B/s.
newTestRunner == [latency |-> 10000000, dlSpeed |-> 100000000, ulSpeed |-> 50000000]

\* The runner of most tests: the values of newTestRunner for every server.
ReferenceRunner == [id \in ServerIDSet |-> newTestRunner]

\* The runners injected: the reference runner, and a perServerMockRunner
\* whose entry for server 2 has no values, as in
\* TestCollect_MultipleServers_PartialFailure.
Runners ==
  {ReferenceRunner,
   [id \in ServerIDSet |-> IF id = 2 THEN mockRunner ELSE newTestRunner]}

VARIABLES
  serverIDs,       \* Exporter.serverIDs: the Target Selection Request
  serverFallback,  \* Exporter.serverFallback
  honourCtx,       \* whether the injected client and runner check ctx.Err()
  runner,          \* Exporter.runner: the values its stages write, per server
  mu,              \* the sync.Mutex of metricsHandler: TRUE when locked
  pc,              \* position of each request's handler
  ctxDone,         \* r.Context() of the request is cancelled
  outstanding,     \* successful TryLock calls minus Unlock calls, per request
  identity,        \* caller identity the directory service reports
  user,            \* caller identity fetched by the run
  servers,         \* candidate list fetched by the run
  server,          \* the speedtest.Server structs behind the candidates
  targets,         \* targets selected by the run
  pos,             \* index in targets of the target under test
  ok,              \* the value speedtest() is going to return
  obs,             \* observations sent on ch, in order
  calls,           \* collaborator calls made by the run, in order
  phase,           \* main: "boot" before the flags are parsed, then "serving"
                   \* or, after os.Exit(1), "exited"; "signalled" once ctx
                   \* is done, "draining" while srv.Shutdown waits, then
                   \* "stopped" or "killed"
  flag,            \* the value of -server_ids, a sequence of characters
  descs,           \* descriptors the latest Describe call has sent
  expired,         \* the write deadline of the request's connection has passed
  last,            \* how the latest finished run ended, "untracked" in the
                   \* specifications that do not look back
  health,          \* the answers of /health: none, or the latest one
  atSignal,        \* the requests whose run was in progress when SIGTERM
                   \* or SIGINT arrived
  shutdownCtx,     \* the time limits, in seconds, of the shutdownCtx made
  pending          \* requests on connections that were accepted before
                   \* srv.Shutdown closed the listener and are not read yet

vars == <<serverIDs, serverFallback, honourCtx, runner, mu, pc, ctxDone, outstanding,
          identity, user, servers, server, targets, pos, ok, obs, calls,
          phase, flag, descs, expired, last, health, atSignal, shutdownCtx,
          pending>>

config == <<serverIDs, serverFallback, honourCtx, runner>>

\* State of the process outside the scrapes.
proc == <<phase, flag, descs, last, health, atSignal, shutdownCtx, pending>>

Holding == {"FetchUserInfo", "FetchServers", "selectServers",
            "pingTest", "downloadTest", "uploadTest", "emit", "served"}

\* ------------------------------------------------------- pure functions

\* A TryLock that does not test the mutex.
TryLock_Always(m) == TRUE

\* sync.Mutex.TryLock: succeeds exactly when the mutex is not locked.
TryLock(m) == ~m

\* speedtest.Servers.FindServer([]int{id}): the exact match when there is
\* one, otherwise the first (nearest) candidate; "err" and "none" are the
\* two results selectServer guards against.
FindServer(srvs, id, mode) ==
  IF mode = "err" THEN [err |-> TRUE, found |-> <<>>]
  ELSE IF mode = "none" THEN [err |-> FALSE, found |-> <<>>]
  ELSE IF \E i \in 1..Len(srvs) : srvs[i] = id
       THEN [err |-> FALSE, found |-> <<id>>]
       ELSE [err |-> FALSE, found |-> <<srvs[1]>>]

\* A lookup that takes the nearest candidate whatever FindServer found.
findTarget_Nearest(srvs, id, fallback, mode) ==
  LET res == FindServer(srvs, id, mode) IN
  IF res.err THEN [err |-> TRUE, target |-> 0]
  ELSE IF Len(res.found) = 0 THEN [err |-> TRUE, target |-> 0]
  ELSE IF srvs[1] # id /\ ~fallback THEN [err |-> TRUE, target |-> 0]
  ELSE [err |-> FALSE, target |-> srvs[1]]

\* A lookup whose fallback also covers an error and an empty result.
findTarget_FallbackOnNone(srvs, id, fallback, mode) ==
  LET res == FindServer(srvs, id, mode) IN
  IF res.err \/ Len(res.found) = 0
  THEN IF fallback THEN [err |-> FALSE, target |-> srvs[1]]
       ELSE [err |-> TRUE, target |-> 0]
  ELSE IF res.found[1] # id /\ ~fallback THEN [err |-> TRUE, target |-> 0]
  ELSE [err |-> FALSE, target |-> res.found[1]]

\* A lookup that accepts a substitute whatever the fallback flag.
findTarget_AcceptSubstitute(srvs, id, fallback, mode) ==
  LET res == FindServer(srvs, id, mode) IN
  IF res.err THEN [err |-> TRUE, target |-> 0]
  ELSE IF Len(res.found) = 0 THEN [err |-> TRUE, target |-> 0]
  ELSE [err |-> FALSE, target |-> res.found[1]]

\* A lookup that rejects a substitute whatever the fallback flag.
findTarget_RejectSubstitute(srvs, id, fallback, mode) ==
  LET res == FindServer(srvs, id, mode) IN
  IF res.err THEN [err |-> TRUE, target |-> 0]
  ELSE IF Len(res.found) = 0 THEN [err |-> TRUE, target |-> 0]
  ELSE IF res.found[1] # id THEN [err |-> TRUE, target |-> 0]
  ELSE [err |-> FALSE, target |-> res.found[1]]

\* selectServer, the lookup of one requested identifier.
findTarget(srvs, id, fallback, mode) ==
  LET res == FindServer(srvs, id, mode) IN
  IF res.err THEN [err |-> TRUE, target |-> 0]
  ELSE IF Len(res.found) = 0 THEN [err |-> TRUE, target |-> 0]
  ELSE IF res.found[1] # id /\ ~fallback THEN [err |-> TRUE, target |-> 0]
  ELSE [err |-> FALSE, target |-> res.found[1]]

\* A selectServer that answers the sentinel with the last candidate.
selectServer_LastCandidate(srvs, id, fallback, mode) ==
  IF Len(srvs) = 0 THEN [err |-> TRUE, target |-> 0]
  ELSE IF id = Sentinel THEN [err |-> FALSE, target |-> srvs[Len(srvs)]]
  ELSE findTarget(srvs, id, fallback, mode)

\* A selectServer that returns no error and a nil server on an empty list.
selectServer_NilOnEmpty(srvs, id, fallback, mode) ==
  IF Len(srvs) = 0 THEN [err |-> FALSE, target |-> 0]
  ELSE IF id = Sentinel THEN [err |-> FALSE, target |-> srvs[1]]
  ELSE findTarget(srvs, id, fallback, mode)

\* selectServer for one configured identifier.
selectServer(srvs, id, fallback, mode) ==
  IF Len(srvs) = 0 THEN [err |-> TRUE, target |-> 0]
  ELSE IF id = Sentinel THEN [err |-> FALSE, target |-> srvs[1]]
  ELSE findTarget(srvs, id, fallback, mode)

\* The lookups of a list of several identifiers, in request order.
RECURSIVE findTargets(_, _, _, _)
findTargets(srvs, ids, fallback, modes) ==
  IF Len(ids) = 0 THEN [err |-> FALSE, targets |-> <<>>]
  ELSE LET one  == findTarget(srvs, Head(ids), fallback, Head(modes))
           rest == findTargets(srvs, Tail(ids), fallback, Tail(modes))
       IN IF one.err \/ rest.err THEN [err |-> TRUE, targets |-> <<>>]
          ELSE [err |-> FALSE, targets |-> <<one.target>> \o rest.targets]

\* A sequence without the later occurrences of its elements.
RECURSIVE Dedup(_)
Dedup(q) ==
  IF Len(q) = 0 THEN <<>>
  ELSE LET front == Dedup(SubSeq(q, 1, Len(q) - 1))
       IN IF \E i \in 1..Len(front) : front[i] = q[Len(q)]
          THEN front ELSE Append(front, q[Len(q)])

\* A selection that measures every selected server once.
selectServers_Dedup(srvs, ids, fallback, modes) ==
  IF Len(srvs) = 0 THEN [err |-> TRUE, targets |-> <<>>]
  ELSE IF ids = <<Sentinel>> THEN [err |-> FALSE, targets |-> <<srvs[1]>>]
  ELSE LET sel == findTargets(srvs, ids, fallback, modes)
       IN [err |-> sel.err, targets |-> Dedup(sel.targets)]

\* selectServers: the selection for the whole configured list.
selectServers(srvs, ids, fallback, modes) ==
  IF Len(ids) = 1
  THEN LET one == selectServer(srvs, ids[1], fallback, modes[1])
       IN IF one.err THEN [err |-> TRUE, targets |-> <<>>]
          ELSE [err |-> FALSE, targets |-> <<one.target>>]
  ELSE IF Len(srvs) = 0 THEN [err |-> TRUE, targets |-> <<>>]
  ELSE findTargets(srvs, ids, fallback, modes)

\* Collaborators that never look at the context.
Outcomes_IgnoreCtx(r) == {"ok", "err"}

\* Results a collaborator call on the run's context can have.
Outcomes(r) == IF ctxDone[r] /\ honourCtx THEN {"err"} ELSE {"ok", "err"}

\* fmt.Sprintf("%.0f", d): the nearest integer, ties to the even one.
FormatDistance(d) ==
  LET q   == d \div DistanceScale
      rem == d % DistanceScale
  IN IF 2 * rem > DistanceScale THEN q + 1
     ELSE IF 2 * rem < DistanceScale THEN q
     ELSE IF q % 2 = 0 THEN q ELSE q + 1

\* A labelValues that reports the download rate in place of the distance.
labelValues_Rate(u, srv) ==
  <<u.Lat, u.Lon, u.IP, u.Isp,
    srv.Lat, srv.Lon, srv.ID, srv.Name, srv.Country, srv.DLSpeed>>

\* labelValues: the ten label values of a per-target observation.
labelValues(u, srv) ==
  <<u.Lat, u.Lon, u.IP, u.Isp,
    srv.Lat, srv.Lon, srv.ID, srv.Name, srv.Country, FormatDistance(srv.Distance)>>

\* time.Duration.Seconds(): nanoseconds over 10^9, kept as a fraction.
Seconds(d) == [num |-> d, den |-> NsPerSecond]

\* The field of the server a stage writes and its metric reports.
StageField(metric) ==
  CASE metric = "latency"  -> "Latency"
    [] metric = "download" -> "DLSpeed"
    [] metric = "upload"   -> "ULSpeed"

\* A conversion to the units of the speedtest.net report: latency in
\* milliseconds, rates in bits per second.
StageValue_Converted(metric, srv) ==
  IF metric = "latency" THEN [num |-> srv.Latency, den |-> 1000000]
  ELSE 8 * srv[StageField(metric)]

\* The value a stage's observation is built from.
StageValue(metric, srv) ==
  IF metric = "latency" THEN Seconds(srv.Latency) ELSE srv[StageField(metric)]

Call(op, k, res) == [op |-> op, pos |-> k, res |-> res]
Obs(metric, k, id, val, labels) ==
  [metric |-> metric, pos |-> k, id |-> id, val |-> val, labels |-> labels]

\* ------------------------------------------------------------ descriptors

namespace == "speedtest"

\* prometheus.BuildFQName(namespace, "", name)
BuildFQName(ns, name) == ns \o "_" \o name

\* prometheus.NewDesc(fqName, help, variableLabels, nil)
NewDesc(fqName, variableLabels) ==
  [fqName |-> fqName, variableLabels |-> variableLabels]

\* The label schema of the three per-target metrics.
targetLabels ==
  <<"user_lat", "user_lon", "user_ip", "user_isp", "server_lat",
    "server_lon", "server_id", "server_name", "server_country", "distance">>

up == NewDesc(BuildFQName(namespace, "up"), <<>>)
scrapeDurationSeconds ==
  NewDesc(BuildFQName(namespace, "scrape_duration_seconds"), <<>>)
latency == NewDesc(BuildFQName(namespace, "latency_seconds"), targetLabels)
upload ==
  NewDesc(BuildFQName(namespace, "upload_speed_bytes_per_second"), targetLabels)
download ==
  NewDesc(BuildFQName(namespace, "download_speed_bytes_per_second"), targetLabels)

\* ---------------------------------------------------------- flag parsing

\* Characters a flag value is made of: digits, the sign, the separator, a
\* space and a letter.
Chars == {"1", "2", "-", ",", " ", "x"}
FlagStrings == UNION {[1..n -> Chars] : n \in 0..MaxFlagLen}

Digits == <<"0", "1", "2", "3", "4", "5", "6", "7", "8", "9">>
IsDigit(c) == \E d \in 1..10 : Digits[d] = c
DigitVal(c) == (CHOOSE d \in 1..10 : Digits[d] = c) - 1

\* strings.TrimSpace
RECURSIVE TrimSpace(_)
TrimSpace(s) ==
  IF Len(s) = 0 THEN s
  ELSE IF Head(s) = " " THEN TrimSpace(Tail(s))
  ELSE IF s[Len(s)] = " " THEN TrimSpace(SubSeq(s, 1, Len(s) - 1))
  ELSE s

\* strings.Split(s, ","): the parts between the separators, empty ones
\* included; one empty part for the empty string.
RECURSIVE Split(_)
Split(s) ==
  IF \E i \in 1..Len(s) : s[i] = ","
  THEN LET i == CHOOSE k \in 1..Len(s) :
                  s[k] = "," /\ \A j \in 1..(k - 1) : s[j] # ","
       IN <<SubSeq(s, 1, i - 1)>> \o Split(SubSeq(s, i + 1, Len(s)))
  ELSE <<s>>

\* The value of a run of decimal digits, most significant first.
RECURSIVE DigitsVal(_)
DigitsVal(s) ==
  IF Len(s) = 0 THEN 0
  ELSE 10 * DigitsVal(SubSeq(s, 1, Len(s) - 1)) + DigitVal(s[Len(s)])

\* strconv.Atoi: an optional sign followed by at least one digit and nothing
\* else.
Atoi(p) ==
  LET signed == Len(p) > 0 /\ p[1] \in {"-", "+"}
      body   == IF signed THEN Tail(p) ELSE p
  IN IF Len(body) = 0 \/ \E i \in 1..Len(body) : ~IsDigit(body[i])
     THEN [err |-> TRUE, val |-> 0]
     ELSE [err |-> FALSE,
           val |-> IF signed /\ p[1] = "-" THEN 0 - DigitsVal(body) ELSE DigitsVal(body)]

\* The loop of parseServerIDs over the parts: empty parts are skipped, the
\* first part that is not an integer ends the parsing with an error.
RECURSIVE parseParts(_)
parseParts(parts) ==
  IF Len(parts) = 0 THEN [err |-> FALSE, ids |-> <<>>]
  ELSE LET p == TrimSpace(Head(parts)) IN
       IF p = <<>> THEN parseParts(Tail(parts))
       ELSE LET n    == Atoi(p)
                rest == parseParts(Tail(parts))
            IN IF n.err \/ rest.err THEN [err |-> TRUE, ids |-> <<>>]
               ELSE [err |-> FALSE, ids |-> <<n.val>> \o rest.ids]

\* A parseServerIDs that passes over the parts that are not integers.
parseServerIDs_SkipInvalid(s) ==
  LET good == SelectSeq(Split(TrimSpace(s)),
                        LAMBDA p : TrimSpace(p) = <<>> \/ ~Atoi(TrimSpace(p)).err)
      res  == parseParts(good)
  IN IF res.ids = <<>> THEN [err |-> TRUE, ids |-> <<>>] ELSE res

\* A parseServerIDs that puts every identifier once.
parseServerIDs_Dedup(s) ==
  LET res == parseParts(Split(TrimSpace(s)))
      ids == res.ids
      keep == {i \in 1..Len(ids) : \A j \in 1..(i - 1) : ids[j] # ids[i]}
      RECURSIVE pick(_)
      pick(i) == IF i > Len(ids) THEN <<>>
                 ELSE (IF i \in keep THEN <<ids[i]>> ELSE <<>>) \o pick(i + 1)
  IN IF res.err \/ ids = <<>> THEN [err |-> TRUE, ids |-> <<>>]
     ELSE [err |-> FALSE, ids |-> pick(1)]

\* parseServerIDs
parseServerIDs(s) ==
  IF TrimSpace(s) = <<>> THEN [err |-> TRUE, ids |-> <<>>]
  ELSE LET res == parseParts(Split(TrimSpace(s)))
       IN IF res.err \/ res.ids = <<>> THEN [err |-> TRUE, ids |-> <<>>] ELSE res

\* The decimal writing of an integer, the one strconv.Atoi reads back.
RECURSIVE Itoa(_)
Itoa(n) ==
  IF n < 0 THEN <<"-">> \o Itoa(0 - n)
  ELSE IF n < 10 THEN <<Digits[n + 1]>>
  ELSE Itoa(n \div 10) \o <<Digits[(n % 10) + 1]>>

\* The flag value that is parsed into ids: the identifiers in decimal,
\* separated by commas ("-1", the default of the flag, for the sentinel).
RECURSIVE FormatServerIDs(_)
FormatServerIDs(ids) ==
  IF Len(ids) = 0 THEN <<>>
  ELSE IF Len(ids) = 1 THEN Itoa(ids[1])
  ELSE Itoa(ids[1]) \o <<",">> \o FormatServerIDs(Tail(ids))

\* ---------------------------------------------------------------- Init
InitWith(rs) ==
  /\ serverIDs \in RequestLists
  /\ serverFallback \in BOOLEAN
  /\ honourCtx \in BOOLEAN
  /\ runner \in rs
  /\ mu = FALSE
  /\ pc = [r \in Req |-> "idle"]
  /\ ctxDone = [r \in Req |-> FALSE]
  /\ outstanding = [r \in Req |-> 0]
  /\ identity = TestUser
  /\ user = [r \in Req |-> NoUser]
  /\ servers = [r \in Req |-> <<>>]
  /\ server = [r \in Req |-> [id \in ServerIDSet |-> NewServer(id)]]
  /\ targets = [r \in Req |-> <<>>]
  /\ pos = [r \in Req |-> 0]
  /\ ok = [r \in Req |-> FALSE]
  /\ obs = [r \in Req |-> <<>>]
  /\ calls = [r \in Req |-> <<>>]
  /\ phase = "serving"
  /\ flag = FormatServerIDs(serverIDs)
  /\ descs = <<>>
  /\ expired = [r \in Req |-> FALSE]
  /\ last = "untracked"
  /\ health = <<>>
  /\ atSignal = {}
  /\ shutdownCtx = <<>>
  /\ pending = {}

\* The exporter with the reference runner.
Init == InitWith({ReferenceRunner})

\* The process before main has read its flags: any flag value, no exporter
\* yet, the listener not bound.
InitParse ==
  /\ phase = "boot"
  /\ flag \in FlagStrings
  /\ serverIDs = <<>>
  /\ serverFallback \in BOOLEAN
  /\ honourCtx = FALSE
  /\ runner = ReferenceRunner
  /\ mu = FALSE
  /\ pc = [r \in Req |-> "idle"]
  /\ ctxDone = [r \in Req |-> FALSE]
  /\ expired = [r \in Req |-> FALSE]
  /\ last = "untracked"
  /\ health = <<>>
  /\ atSignal = {}
  /\ shutdownCtx = <<>>
  /\ pending = {}
  /\ outstanding = [r \in Req |-> 0]
  /\ identity = TestUser
  /\ user = [r \in Req |-> NoUser]
  /\ servers = [r \in Req |-> <<>>]
  /\ server = [r \in Req |-> [id \in ServerIDSet |-> NewServer(id)]]
  /\ targets = [r \in Req |-> <<>>]
  /\ pos = [r \in Req |-> 0]
  /\ ok = [r \in Req |-> FALSE]
  /\ obs = [r \in Req |-> <<>>]
  /\ calls = [r \in Req |-> <<>>]
  /\ descs = <<>>

\* -------------------------------------------------------------- actions

\* The write timeout of the server, in seconds, which is also the time
\* Shutdown is given: 60 per configured identifier and 10.
writeTimeout == Len(serverIDs) * 60 + 10

\* A signal that cancels the scope of the runs in flight, as a server
\* whose BaseContext is the signal context would.
Signal_CancelRuns ==
  /\ phase = "serving"
  /\ phase' = "signalled"
  /\ atSignal' = {r \in Req : pc[r] \in Holding \ {"served"}}
  /\ ctxDone' = [r \in Req |-> ctxDone[r] \/ pc[r] \in Holding \ {"served"}]
  /\ UNCHANGED <<config, flag, descs, last, health, shutdownCtx, pending,
                 identity, mu, pc, expired, outstanding, user, servers,
                 server, targets, pos, ok, obs, calls>>

\* SIGTERM or SIGINT arrives: ctx of signal.NotifyContext is done.  The
\* listener stays open and the handlers go on, with their request contexts
\* as they are, until main has woken up and called srv.Shutdown.
Signal ==
  /\ phase = "serving"
  /\ phase' = "signalled"
  /\ atSignal' = {r \in Req : pc[r] \in Holding \ {"served"}}
  /\ UNCHANGED <<config, flag, descs, last, health, shutdownCtx, pending,
                 identity, mu, pc, ctxDone, expired, outstanding, user,
                 servers, server, targets, pos, ok, obs, calls>>

\* main after <-ctx.Done(): shutdownCtx with the write timeout as its
\* limit, and srv.Shutdown(shutdownCtx), which closes the listener and the
\* idle connections.  A connection that was accepted before and has not
\* delivered its request yet stays open: pending are the requests on such
\* connections.
Shutdown ==
  /\ phase = "signalled"
  /\ phase' = "draining"
  /\ shutdownCtx' = <<writeTimeout>>
  /\ \E P \in SUBSET {r \in Req : pc[r] = "idle"} : pending' = P
  /\ UNCHANGED <<config, flag, descs, last, health, atSignal, identity, mu,
                 pc, ctxDone, expired, outstanding, user, servers, server,
                 targets, pos, ok, obs, calls>>

\* srv.Shutdown returns nil: no handler is in flight any more, and the
\* connections that have delivered nothing are closed as idle ones; main
\* returns.
ShutdownReturn ==
  /\ phase = "draining"
  /\ \A r \in Req : pc[r] = "idle"
  /\ phase' = "stopped"
  /\ pending' = {}
  /\ UNCHANGED <<config, flag, descs, last, health, atSignal, shutdownCtx,
                 identity, mu, pc, ctxDone, expired, outstanding, user,
                 servers, server, targets, pos, ok, obs, calls>>

\* shutdownCtx expires with handlers still in flight: srv.Shutdown returns
\* the error, main returns and the process ends with them.
ShutdownDeadline ==
  /\ phase = "draining"
  /\ \E r \in Req : pc[r] # "idle"
  /\ phase' = "killed"
  /\ pc' = [r \in Req |-> IF pc[r] = "idle" THEN "idle" ELSE "killed"]
  /\ pending' = {}
  /\ UNCHANGED <<config, flag, descs, last, health, atSignal, shutdownCtx,
                 identity, mu, ctxDone, expired, outstanding, user, servers,
                 server, targets, pos, ok, obs, calls>>

\* The server reads request r and starts its handler: the listener is
\* open, or the connection of r was accepted before it was closed.
Accepting(r) ==
  \/ phase \in {"serving", "signalled"}
  \/ phase = "draining" /\ r \in pending

\* A /health that goes through the gate of /metrics.
healthHandler_Gated ==
  /\ phase \in {"serving", "signalled", "draining"}
  /\ health' = IF mu THEN <<[status |-> StatusBusy, body |-> "busy", busy |-> mu]>>
                ELSE <<[status |-> StatusOK, body |-> "OK", busy |-> mu]>>
  /\ UNCHANGED <<config, phase, flag, descs, last, atSignal, shutdownCtx,
                 pending, identity, mu, pc, ctxDone, expired, outstanding,
                 user, servers, server, targets, pos, ok, obs, calls>>

\* healthHandler: WriteHeader(200) and the body "OK".  busy records, for
\* the reader of a trace, whether a scrape held the gate at that time.
\* The request comes while the listener is open or, during srv.Shutdown,
\* on a connection accepted before.
healthHandler ==
  /\ phase \in {"serving", "signalled", "draining"}
  /\ health' = <<[status |-> StatusOK, body |-> "OK", busy |-> mu]>>
  /\ UNCHANGED <<config, phase, flag, descs, last, atSignal, shutdownCtx,
                 pending, identity, mu, pc, ctxDone, expired, outstanding,
                 user, servers, server, targets, pos, ok, obs, calls>>

\* A Describe that adds its descriptors to those it sent before.
Describe_Cumulative(ch) ==
  descs \o <<up, scrapeDurationSeconds, latency, upload, download>>

\* Exporter.Describe(ch): the five descriptors sent on the channel, in
\* order, after what the channel holds.
Describe(ch) ==
  ch \o <<up, scrapeDurationSeconds, latency, upload, download>>

\* TestDescribe: Describe called on an exporter directly, on a channel of
\* its own, at any time.
TestDescribe ==
  /\ descs' = Describe(<<>>)
  /\ UNCHANGED <<config, phase, flag, last, health, atSignal, shutdownCtx,
                 pending, identity, mu, pc, ctxDone, expired, outstanding,
                 user, servers, server, targets, pos, ok, obs, calls>>

\* main, from flag.Parse to the start of the listener, for flag values
\* that flag.Parse has accepted: os.Exit(1) on a parse error, otherwise
\* exporter.New(serverIDs, serverFallback) and the goroutine of
\* srv.ListenAndServe, which serves or, when the listener cannot be
\* opened, ends the process with os.Exit(1).
main ==
  /\ phase = "boot"
  /\ LET res == parseServerIDs(flag) IN
     IF res.err
     THEN /\ phase' = "exited"
          /\ UNCHANGED serverIDs
     ELSE /\ phase' \in {"serving", "exited"}
          /\ serverIDs' = res.ids
  /\ UNCHANGED <<serverFallback, honourCtx, runner, flag, descs, last, health,
                 atSignal, shutdownCtx, pending, identity, mu, pc,
                 ctxDone, expired, outstanding, user, servers, server,
                 targets, pos, ok, obs, calls>>

\* A handler whose Unlock is deferred before the TryLock test, so that the
\* busy path unlocks too.
metricsHandler_DeferFirst(r) ==
  /\ Accepting(r)
  /\ pc[r] = "idle"
  /\ pending' = pending \ {r}
  /\ IF TryLock(mu)
     THEN /\ mu' = TRUE
          /\ outstanding' = [outstanding EXCEPT ![r] = @ + 1]
          /\ descs' = Describe(<<>>)
          /\ pc' = [pc EXCEPT ![r] = "FetchUserInfo"]
     ELSE /\ pc' = [pc EXCEPT ![r] = "rejected"]
          /\ mu' = FALSE
          /\ outstanding' = [outstanding EXCEPT ![r] = @ - 1]
          /\ UNCHANGED descs
  /\ UNCHANGED <<config, phase, flag, last, health, atSignal, shutdownCtx,
                 identity, ctxDone, expired, user, servers, server, targets,
                 pos, ok, obs, calls>>

\* metricsHandler, from its entry to the run: TryLock and the 503 answer
\* when it fails; otherwise a registry of its own, on which MustRegister
\* calls Describe of the exporter through contextCollector.Describe.
metricsHandler(r) ==
  /\ Accepting(r)
  /\ pc[r] = "idle"
  /\ pending' = pending \ {r}
  /\ IF TryLock(mu)
     THEN /\ mu' = TRUE
          /\ outstanding' = [outstanding EXCEPT ![r] = @ + 1]
          /\ descs' = Describe(<<>>)
          /\ pc' = [pc EXCEPT ![r] = "FetchUserInfo"]
     ELSE /\ pc' = [pc EXCEPT ![r] = "rejected"]
          /\ UNCHANGED <<mu, outstanding, descs>>
  /\ UNCHANGED <<config, phase, flag, last, health, atSignal, shutdownCtx,
                 identity, ctxDone, expired, user, servers, server, targets,
                 pos, ok, obs, calls>>

\* metricsHandler, the return after http.Error.
busyReturn(r) ==
  /\ pc[r] = "rejected"
  /\ pc' = [pc EXCEPT ![r] = "idle"]
  /\ UNCHANGED <<config, proc, identity, mu, ctxDone, expired, outstanding,
                 user, servers, server, targets, pos, ok, obs, calls>>

\* The request's context ends while its run is in progress.
Cancel(r) ==
  /\ pc[r] \in Holding \ {"served"}
  /\ ~ctxDone[r]
  /\ ctxDone' = [ctxDone EXCEPT ![r] = TRUE]
  /\ UNCHANGED <<config, proc, identity, mu, pc, expired, outstanding, user,
                 servers, server, targets, pos, ok, obs, calls>>

\* http.Server.WriteTimeout, (len(serverIDs)*60+10) seconds after the
\* request was read: the write deadline of the connection passes.  The
\* handler is given r.Context() and nothing derived from it with a timeout,
\* and a write deadline does not cancel that context.
WriteTimeout(r) ==
  /\ pc[r] \in Holding \ {"served"}
  /\ ~expired[r]
  /\ expired' = [expired EXCEPT ![r] = TRUE]
  /\ UNCHANGED <<config, proc, identity, mu, pc, ctxDone, outstanding, user,
                 servers, server, targets, pos, ok, obs, calls>>

\* The machine changes network between two scrapes: the directory service
\* reports another caller identity from now on.
Reconnect ==
  /\ \A r \in Req : pc[r] \in {"idle", "rejected"}
  /\ \E u \in Users \ {identity} : identity' = u
  /\ UNCHANGED <<config, proc, mu, pc, ctxDone, expired, outstanding, user,
                 servers, server, targets, pos, ok, obs, calls>>

\* The uplink of the host changes at any time, during a run as well: what
\* speedtest.net would answer to FetchUserInfo from now on is another user.
Roam ==
  /\ \E u \in Users \ {identity} : identity' = u
  /\ UNCHANGED <<config, proc, mu, pc, ctxDone, expired, outstanding, user,
                 servers, server, targets, pos, ok, obs, calls>>

\* A speedtest that logs the identity error and goes on.
FetchUserInfo_IgnoreErr(r) ==
  /\ pc[r] = "FetchUserInfo"
  /\ \E res \in Outcomes(r) :
       calls' = [calls EXCEPT ![r] = Append(@, Call("FetchUserInfo", 0, res))]
  /\ user' = [user EXCEPT ![r] = identity]
  /\ pc' = [pc EXCEPT ![r] = "FetchServers"]
  /\ ok' = [ok EXCEPT ![r] = FALSE]
  /\ UNCHANGED <<config, proc, identity, mu, ctxDone, expired, outstanding,
                 servers, server, targets, pos, obs>>

\* speedtest: e.client.FetchUserInfo(ctx) and its error return.
FetchUserInfo(r) ==
  /\ pc[r] = "FetchUserInfo"
  /\ \E res \in Outcomes(r) :
       /\ calls' = [calls EXCEPT ![r] = Append(@, Call("FetchUserInfo", 0, res))]
       /\ IF res = "ok"
          THEN /\ user' = [user EXCEPT ![r] = identity]
               /\ pc' = [pc EXCEPT ![r] = "FetchServers"]
          ELSE /\ pc' = [pc EXCEPT ![r] = "emit"]
               /\ UNCHANGED user
  /\ ok' = [ok EXCEPT ![r] = FALSE]
  /\ UNCHANGED <<config, proc, identity, mu, ctxDone, expired, outstanding,
                 servers, server, targets, pos, obs>>

\* A speedtest that logs the candidate-list error and goes on with the
\* list returned next to the error.
FetchServers_IgnoreErr(r) ==
  /\ pc[r] = "FetchServers"
  /\ \E res \in Outcomes(r) :
       calls' = [calls EXCEPT ![r] = Append(@, Call("FetchServers", 0, res))]
  /\ \E list \in CandidateLists : servers' = [servers EXCEPT ![r] = list]
  /\ pc' = [pc EXCEPT ![r] = "selectServers"]
  /\ UNCHANGED <<config, proc, identity, mu, ctxDone, expired, outstanding,
                 user, server, targets, pos, ok, obs>>

\* speedtest: e.client.FetchServers(ctx) and its error return.
FetchServers(r) ==
  /\ pc[r] = "FetchServers"
  /\ \/ /\ "ok" \in Outcomes(r)
        /\ \E list \in CandidateLists : servers' = [servers EXCEPT ![r] = list]
        /\ calls' = [calls EXCEPT ![r] = Append(@, Call("FetchServers", 0, "ok"))]
        /\ pc' = [pc EXCEPT ![r] = "selectServers"]
     \/ /\ calls' = [calls EXCEPT ![r] = Append(@, Call("FetchServers", 0, "err"))]
        /\ pc' = [pc EXCEPT ![r] = "emit"]
        /\ UNCHANGED servers
  /\ UNCHANGED <<config, proc, identity, mu, ctxDone, expired, outstanding,
                 user, server, targets, pos, ok, obs>>

\* The identifier lookups of one selection, in request order, up to the
\* first one that makes the selection fail.
RECURSIVE lookups(_, _, _, _, _)
lookups(srvs, ids, fallback, modes, i) ==
  IF i > Len(ids) THEN <<>>
  ELSE LET one == findTarget(srvs, ids[i], fallback, modes[i])
           c   == Call("FindServer", i, IF modes[i] = "lib" THEN "ok" ELSE modes[i])
       IN IF one.err THEN <<c>>
          ELSE <<c>> \o lookups(srvs, ids, fallback, modes, i + 1)

\* The calls of servers.FindServer a selection makes: none on an empty
\* candidate list and none for the sentinel-only request.
selectCalls(srvs, ids, fallback, modes) ==
  IF Len(srvs) = 0 \/ ids = <<Sentinel>> THEN <<>>
  ELSE lookups(srvs, ids, fallback, modes, 1)

\* speedtest: the selection and its error return.
selectStep(r) ==
  /\ pc[r] = "selectServers"
  /\ \E modes \in [1..Len(serverIDs) -> FindModes] :
       LET sel == selectServers(servers[r], serverIDs, serverFallback, modes)
           fc  == selectCalls(servers[r], serverIDs, serverFallback, modes)
       IN
       IF sel.err
       THEN /\ calls' = [calls EXCEPT ![r] =
                           @ \o fc \o <<Call("selectServers", 0, "err")>>]
            /\ pc' = [pc EXCEPT ![r] = "emit"]
            /\ UNCHANGED <<targets, pos, ok>>
       ELSE /\ calls' = [calls EXCEPT ![r] =
                           @ \o fc \o <<Call("selectServers", 0, "ok")>>]
            /\ targets' = [targets EXCEPT ![r] = sel.targets]
            /\ pos' = [pos EXCEPT ![r] = 1]
            /\ ok' = [ok EXCEPT ![r] = TRUE]
            /\ pc' = [pc EXCEPT ![r] = "pingTest"]
  /\ UNCHANGED <<config, proc, identity, mu, ctxDone, expired, outstanding,
                 user, servers, server, obs>>

\* speedtest, the iteration over the selected targets: after the upload
\* stage the run goes on to the next target, or returns after the last one.
afterUpload(r) ==
  IF pos[r] < Len(targets[r])
  THEN [pc |-> "pingTest", pos |-> pos[r] + 1]
  ELSE [pc |-> "emit", pos |-> pos[r]]

\* The field of the runner that a stage writes to the server.
RunnerField(metric) ==
  CASE metric = "latency"  -> "latency"
    [] metric = "download" -> "dlSpeed"
    [] metric = "upload"   -> "ulSpeed"

\* The server under test after the stage of runner m returned res: a
\* successful stage has written the runner's value into the struct, in
\* place.
afterRun(m, srv, metric, res) ==
  IF res = "ok"
  THEN [srv EXCEPT ![StageField(metric)] = m[RunnerField(metric)]]
  ELSE srv

\* An observation labelled with the identity the client has when the stage
\* ends, not with the one fetched at the start of the run.
stageObs_LiveIdentity(r, metric, k, srv) ==
  Obs(metric, k, targets[r][k], StageValue(metric, srv), labelValues(identity, srv))

\* prometheus.MustNewConstMetric(desc, GaugeValue, value, labelValues(user, server)...)
\* for the target at position k of run r, whose struct is srv.
stageObs(r, metric, k, srv) ==
  Obs(metric, k, targets[r][k], StageValue(metric, srv), labelValues(user[r], srv))

\* One stage on the current target: the runner call, the observation on
\* success, and the accumulation of the result into ok.
runStage(r, op, metric, next, nextPos) ==
  /\ \E res \in Outcomes(r) :
       LET id  == targets[r][pos[r]]
           srv == afterRun(runner[id], server[r][id], metric, res)
       IN
       /\ calls' = [calls EXCEPT ![r] = Append(@, Call(op, pos[r], res))]
       /\ server' = [server EXCEPT ![r][id] = srv]
       /\ obs' = [obs EXCEPT ![r] =
                    IF res = "ok"
                    THEN Append(@, stageObs(r, metric, pos[r], srv))
                    ELSE @]
       /\ ok' = [ok EXCEPT ![r] = (res = "ok") /\ @]
  /\ pc' = [pc EXCEPT ![r] = next]
  /\ pos' = [pos EXCEPT ![r] = nextPos]
  /\ UNCHANGED <<config, proc, identity, mu, ctxDone, expired, outstanding,
                 user, servers, targets>>

\* A stage whose result replaces ok instead of being and-ed into it.
runStageOverwrite(r, op, metric, next, nextPos) ==
  /\ \E res \in Outcomes(r) :
       LET id  == targets[r][pos[r]]
           srv == afterRun(runner[id], server[r][id], metric, res)
       IN
       /\ calls' = [calls EXCEPT ![r] = Append(@, Call(op, pos[r], res))]
       /\ server' = [server EXCEPT ![r][id] = srv]
       /\ obs' = [obs EXCEPT ![r] =
                    IF res = "ok"
                    THEN Append(@, stageObs(r, metric, pos[r], srv))
                    ELSE @]
       /\ ok' = [ok EXCEPT ![r] = (res = "ok")]
  /\ pc' = [pc EXCEPT ![r] = next]
  /\ pos' = [pos EXCEPT ![r] = nextPos]
  /\ UNCHANGED <<config, proc, identity, mu, ctxDone, expired, outstanding,
                 user, servers, targets>>

\* A ping stage whose failure ends the run.
pingTest_ShortCircuit(r) ==
  /\ pc[r] = "pingTest"
  /\ \E res \in Outcomes(r) :
       LET id  == targets[r][pos[r]]
           srv == afterRun(runner[id], server[r][id], "latency", res)
       IN
       /\ calls' = [calls EXCEPT ![r] = Append(@, Call("PingTest", pos[r], res))]
       /\ server' = [server EXCEPT ![r][id] = srv]
       /\ obs' = [obs EXCEPT ![r] =
                    IF res = "ok"
                    THEN Append(@, stageObs(r, "latency", pos[r], srv))
                    ELSE @]
       /\ ok' = [ok EXCEPT ![r] = (res = "ok") /\ @]
       /\ pc' = [pc EXCEPT ![r] = IF res = "ok" THEN "downloadTest" ELSE "emit"]
  /\ UNCHANGED <<config, proc, identity, mu, ctxDone, expired, outstanding,
                 user, servers, targets, pos>>


\* A latency stage that calls the runner a second time when the first call
\* failed.
pingTest_Retry(r) ==
  /\ pc[r] = "pingTest"
  /\ \E r1, r2 \in Outcomes(r) :
       LET id  == targets[r][pos[r]]
           res == IF r1 = "ok" THEN r1 ELSE r2
           srv == afterRun(runner[id], server[r][id], "latency", res)
       IN
       /\ calls' = [calls EXCEPT ![r] =
                      IF r1 = "ok"
                      THEN Append(@, Call("PingTest", pos[r], r1))
                      ELSE @ \o <<Call("PingTest", pos[r], r1),
                                  Call("PingTest", pos[r], r2)>>]
       /\ server' = [server EXCEPT ![r][id] = srv]
       /\ obs' = [obs EXCEPT ![r] =
                    IF res = "ok"
                    THEN Append(@, stageObs(r, "latency", pos[r], srv))
                    ELSE @]
       /\ ok' = [ok EXCEPT ![r] = (res = "ok") /\ @]
  /\ pc' = [pc EXCEPT ![r] = "downloadTest"]
  /\ UNCHANGED <<config, proc, identity, mu, ctxDone, expired, outstanding,
                 user, servers, targets, pos>>

\* speedtest and pingTest: the latency stage.
pingTest(r) ==
  /\ pc[r] = "pingTest"
  /\ runStage(r, "PingTest", "latency", "downloadTest", pos[r])

\* A download stage that runs the upload before the download.
downloadTest_UploadFirst(r) ==
  /\ pc[r] = "downloadTest"
  /\ \E r1, r2 \in Outcomes(r) :
       LET id   == targets[r][pos[r]]
           srv1 == afterRun(runner[id], server[r][id], "upload", r1)
           srv2 == afterRun(runner[id], srv1, "download", r2)
       IN
       /\ calls' = [calls EXCEPT ![r] =
                      @ \o <<Call("UploadTest", pos[r], r1),
                             Call("DownloadTest", pos[r], r2)>>]
       /\ server' = [server EXCEPT ![r][id] = srv2]
       /\ obs' = [obs EXCEPT ![r] =
                    @ \o (IF r1 = "ok"
                          THEN <<stageObs(r, "upload", pos[r], srv1)>>
                          ELSE <<>>)
                      \o (IF r2 = "ok"
                          THEN <<stageObs(r, "download", pos[r], srv2)>>
                          ELSE <<>>)]
       /\ ok' = [ok EXCEPT ![r] = (r1 = "ok") /\ (r2 = "ok") /\ @]
  /\ pc' = [pc EXCEPT ![r] = afterUpload(r).pc]
  /\ pos' = [pos EXCEPT ![r] = afterUpload(r).pos]
  /\ UNCHANGED <<config, proc, identity, mu, ctxDone, expired, outstanding,
                 user, servers, targets>>

\* A download stage that gives the run up when its context is cancelled.
downloadTest_AbortOnCancel(r) ==
  /\ pc[r] = "downloadTest"
  /\ \E res \in Outcomes(r) :
       LET id  == targets[r][pos[r]]
           srv == afterRun(runner[id], server[r][id], "download", res)
       IN
       /\ calls' = [calls EXCEPT ![r] = Append(@, Call("DownloadTest", pos[r], res))]
       /\ server' = [server EXCEPT ![r][id] = srv]
       /\ obs' = [obs EXCEPT ![r] =
                    IF res = "ok"
                    THEN Append(@, stageObs(r, "download", pos[r], srv))
                    ELSE @]
       /\ ok' = [ok EXCEPT ![r] = (res = "ok") /\ @]
       /\ pc' = [pc EXCEPT ![r] =
                   IF res = "err" /\ ctxDone[r] THEN "emit" ELSE "uploadTest"]
  /\ UNCHANGED <<config, proc, identity, mu, ctxDone, expired, outstanding,
                 user, servers, targets, pos>>

\* A download stage that keeps its observation back once the run is
\* unhealthy.
downloadTest_SkipAfterFailure(r) ==
  /\ pc[r] = "downloadTest"
  /\ \E res \in Outcomes(r) :
       LET id  == targets[r][pos[r]]
           srv == afterRun(runner[id], server[r][id], "download", res)
       IN
       /\ calls' = [calls EXCEPT ![r] = Append(@, Call("DownloadTest", pos[r], res))]
       /\ server' = [server EXCEPT ![r][id] = srv]
       /\ obs' = [obs EXCEPT ![r] =
                    IF res = "ok" /\ ok[r]
                    THEN Append(@, stageObs(r, "download", pos[r], srv))
                    ELSE @]
       /\ ok' = [ok EXCEPT ![r] = (res = "ok") /\ @]
  /\ pc' = [pc EXCEPT ![r] = "uploadTest"]
  /\ UNCHANGED <<config, proc, identity, mu, ctxDone, expired, outstanding,
                 user, servers, targets, pos>>

\* speedtest and downloadTest: the download stage.
downloadTest(r) ==
  /\ pc[r] = "downloadTest"
  /\ runStage(r, "DownloadTest", "download", "uploadTest", pos[r])

\* An upload stage whose result replaces ok.
uploadTest_Overwrite(r) ==
  /\ pc[r] = "uploadTest"
  /\ runStageOverwrite(r, "UploadTest", "upload", afterUpload(r).pc, afterUpload(r).pos)

\* An upload stage that emits its observation whether or not the runner
\* returned an error.
uploadTest_EmitAlways(r) ==
  /\ pc[r] = "uploadTest"
  /\ \E res \in Outcomes(r) :
       LET id  == targets[r][pos[r]]
           srv == afterRun(runner[id], server[r][id], "upload", res)
       IN
       /\ calls' = [calls EXCEPT ![r] = Append(@, Call("UploadTest", pos[r], res))]
       /\ server' = [server EXCEPT ![r][id] = srv]
       /\ obs' = [obs EXCEPT ![r] = Append(@, stageObs(r, "upload", pos[r], srv))]
       /\ ok' = [ok EXCEPT ![r] = (res = "ok") /\ @]
  /\ pc' = [pc EXCEPT ![r] = afterUpload(r).pc]
  /\ pos' = [pos EXCEPT ![r] = afterUpload(r).pos]
  /\ UNCHANGED <<config, proc, identity, mu, ctxDone, expired, outstanding,
                 user, servers, targets>>

\* speedtest and uploadTest: the upload stage.
uploadTest(r) ==
  /\ pc[r] = "uploadTest"
  /\ runStage(r, "UploadTest", "upload", afterUpload(r).pc, afterUpload(r).pos)

\* A CollectWithContext that sends nothing, and does not return, after a
\* run that failed.
CollectWithContext_HealthyOnly(r) ==
  /\ pc[r] = "emit"
  /\ ok[r]
  /\ obs' = [obs EXCEPT ![r] =
               @ \o <<Obs("up", 0, 0, 1, <<>>), Obs("duration", 0, 0, 0, <<>>)>>]
  /\ pc' = [pc EXCEPT ![r] = "served"]
  /\ UNCHANGED <<config, proc, identity, mu, ctxDone, expired, outstanding,
                 user, servers, server, targets, pos, ok, calls>>

\* A CollectWithContext that sends the duration before up.
CollectWithContext_DurationFirst(r) ==
  /\ pc[r] = "emit"
  /\ obs' = [obs EXCEPT ![r] =
               @ \o <<Obs("duration", 0, 0, 0, <<>>),
                      Obs("up", 0, 0, IF ok[r] THEN 1 ELSE 0, <<>>)>>]
  /\ pc' = [pc EXCEPT ![r] = "served"]
  /\ UNCHANGED <<config, proc, identity, mu, ctxDone, expired, outstanding,
                 user, servers, server, targets, pos, ok, calls>>

\* A CollectWithContext that reports the duration of successful runs only.
CollectWithContext_NoDuration(r) ==
  /\ pc[r] = "emit"
  /\ obs' = [obs EXCEPT ![r] =
               @ \o (IF ok[r] THEN <<Obs("up", 0, 0, 1, <<>>), Obs("duration", 0, 0, 0, <<>>)>>
                             ELSE <<Obs("up", 0, 0, 0, <<>>)>>)]
  /\ pc' = [pc EXCEPT ![r] = "served"]
  /\ UNCHANGED <<config, proc, identity, mu, ctxDone, expired, outstanding,
                 user, servers, server, targets, pos, ok, calls>>

\* CollectWithContext after speedtest returned: up, then scrape duration.
CollectWithContext(r) ==
  /\ pc[r] = "emit"
  /\ obs' = [obs EXCEPT ![r] =
               @ \o <<Obs("up", 0, 0, IF ok[r] THEN 1 ELSE 0, <<>>),
                      Obs("duration", 0, 0, 0, <<>>)>>]
  /\ pc' = [pc EXCEPT ![r] = "served"]
  /\ UNCHANGED <<config, proc, identity, mu, ctxDone, expired, outstanding,
                 user, servers, server, targets, pos, ok, calls>>

\* How the run of request r ends.
Outcome(r) ==
  IF ctxDone[r] THEN "cancelled" ELSE IF ok[r] THEN "up" ELSE "degraded"

\* A handler that keeps the observations of its run for the next one.
Unlock_KeepObs(r) ==
  /\ pc[r] = "served"
  /\ mu' = FALSE
  /\ outstanding' = [outstanding EXCEPT ![r] = @ - 1]
  /\ pc' = [pc EXCEPT ![r] = "idle"]
  /\ ctxDone' = [ctxDone EXCEPT ![r] = FALSE]
  /\ expired' = [expired EXCEPT ![r] = FALSE]
  /\ user' = [user EXCEPT ![r] = NoUser]
  /\ servers' = [servers EXCEPT ![r] = <<>>]
  /\ server' = [server EXCEPT ![r] = [id \in ServerIDSet |-> NewServer(id)]]
  /\ targets' = [targets EXCEPT ![r] = <<>>]
  /\ pos' = [pos EXCEPT ![r] = 0]
  /\ ok' = [ok EXCEPT ![r] = FALSE]
  /\ obs' = [obs EXCEPT ![r] =
               SelectSeq(@, LAMBDA o : o.metric \notin {"up", "duration"})]
  /\ calls' = [calls EXCEPT ![r] = <<>>]
  /\ last' = IF last = "untracked" THEN last ELSE Outcome(r)
  /\ UNCHANGED <<config, phase, flag, descs, health, atSignal, shutdownCtx, pending, identity>>

\* A handler that unlocks at the end of a healthy run only (no defer).
Unlock_OnSuccessOnly(r) ==
  /\ pc[r] = "served"
  /\ mu' = IF ok[r] THEN FALSE ELSE mu
  /\ outstanding' = [outstanding EXCEPT ![r] = IF ok[r] THEN @ - 1 ELSE @]
  /\ pc' = [pc EXCEPT ![r] = "idle"]
  /\ ctxDone' = [ctxDone EXCEPT ![r] = FALSE]
  /\ expired' = [expired EXCEPT ![r] = FALSE]
  /\ user' = [user EXCEPT ![r] = NoUser]
  /\ servers' = [servers EXCEPT ![r] = <<>>]
  /\ server' = [server EXCEPT ![r] = [id \in ServerIDSet |-> NewServer(id)]]
  /\ targets' = [targets EXCEPT ![r] = <<>>]
  /\ pos' = [pos EXCEPT ![r] = 0]
  /\ ok' = [ok EXCEPT ![r] = FALSE]
  /\ obs' = [obs EXCEPT ![r] = <<>>]
  /\ calls' = [calls EXCEPT ![r] = <<>>]
  /\ last' = IF last = "untracked" THEN last ELSE Outcome(r)
  /\ UNCHANGED <<config, phase, flag, descs, health, atSignal, shutdownCtx, pending, identity>>

\* metricsHandler, return: the deferred mu.Unlock(); the run's locals die.
Unlock(r) ==
  /\ pc[r] = "served"
  /\ mu' = FALSE
  /\ outstanding' = [outstanding EXCEPT ![r] = @ - 1]
  /\ pc' = [pc EXCEPT ![r] = "idle"]
  /\ ctxDone' = [ctxDone EXCEPT ![r] = FALSE]
  /\ expired' = [expired EXCEPT ![r] = FALSE]
  /\ user' = [user EXCEPT ![r] = NoUser]
  /\ servers' = [servers EXCEPT ![r] = <<>>]
  /\ server' = [server EXCEPT ![r] = [id \in ServerIDSet |-> NewServer(id)]]
  /\ targets' = [targets EXCEPT ![r] = <<>>]
  /\ pos' = [pos EXCEPT ![r] = 0]
  /\ ok' = [ok EXCEPT ![r] = FALSE]
  /\ obs' = [obs EXCEPT ![r] = <<>>]
  /\ calls' = [calls EXCEPT ![r] = <<>>]
  /\ last' = IF last = "untracked" THEN last ELSE Outcome(r)
  /\ UNCHANGED <<config, phase, flag, descs, health, atSignal, shutdownCtx, pending, identity>>

Next ==
  \/ Reconnect
  \/ \E r \in Req :
    \/ metricsHandler(r)
    \/ busyReturn(r)
    \/ Cancel(r)
    \/ FetchUserInfo(r)
    \/ FetchServers(r)
    \/ selectStep(r)
    \/ pingTest(r)
    \/ downloadTest(r)
    \/ uploadTest(r)
    \/ CollectWithContext(r)
    \/ Unlock(r)

\* Any number of concurrent requests against any configuration.
Spec == Init /\ [][Next]_vars

\* The configurations with one server identifier: the sentinel of the flag
\* default or an explicit one, with or without fallback.
InitSingle ==
  /\ Init
  /\ Len(serverIDs) = 1

\* Concurrent requests against an exporter configured with one identifier.
SpecGate == InitSingle /\ [][Next]_vars

\* The scrapes of a single client, one request after the other.
NextScrape ==
  \/ metricsHandler(1)
  \/ Cancel(1)
  \/ FetchUserInfo(1)
  \/ FetchServers(1)
  \/ selectStep(1)
  \/ pingTest(1)
  \/ downloadTest(1)
  \/ uploadTest(1)
  \/ CollectWithContext(1)
  \/ Unlock(1)

\* One client against any configuration.
SpecScrape == Init /\ [][NextScrape]_vars

\* The collaborators of the unit tests, mockClient and mockRunner: their
\* results do not depend on the context they are given.
InitMock ==
  /\ Init
  /\ ~honourCtx

\* The scrapes of a single client that stays connected.  The exporter hands
\* ctx to its collaborators and never reads it, so with collaborators that
\* ignore ctx a cancellation changes nothing a run does.
NextMock ==
  \/ metricsHandler(1)
  \/ FetchUserInfo(1)
  \/ FetchServers(1)
  \/ selectStep(1)
  \/ pingTest(1)
  \/ downloadTest(1)
  \/ uploadTest(1)
  \/ CollectWithContext(1)
  \/ Unlock(1)

\* One client against any configuration, any collaborator results.
SpecMock == InitMock /\ [][NextMock]_vars

\* The same client against an exporter whose runner is any of Runners.
InitRunner ==
  /\ InitWith(Runners)
  /\ ~honourCtx

SpecRunner == InitRunner /\ [][NextMock]_vars

\* Collaborators that check ctx.Err() before anything else, as
\* ctxAwareRunner and the real client and runner do.
InitCtxAware ==
  /\ Init
  /\ honourCtx

\* One client against any configuration, cancellation honoured.
SpecCtxAware == InitCtxAware /\ [][NextScrape]_vars

\* One client against an exporter with one identifier whose Describe is
\* called before, during and after the runs.
NextDescribe ==
  \/ TestDescribe
  \/ NextMock

InitDescribe ==
  /\ InitMock
  /\ Len(serverIDs) = 1

SpecDescribe == InitDescribe /\ [][NextDescribe]_vars

\* One client of an exporter with fallback, whose host changes its uplink
\* while runs are in progress.
NextRoam ==
  \/ Roam
  \/ NextMock

InitRoam ==
  /\ InitMock
  /\ serverFallback = TRUE

SpecRoam == InitRoam /\ [][NextRoam]_vars

\* An exporter with one identifier, collaborators that honour cancellation,
\* and a record of how the latest finished run ended.
InitRuns ==
  /\ serverIDs \in RequestLists
  /\ Len(serverIDs) = 1
  /\ serverFallback = TRUE
  /\ honourCtx = TRUE
  /\ runner = ReferenceRunner
  /\ mu = FALSE
  /\ pc = [r \in Req |-> "idle"]
  /\ ctxDone = [r \in Req |-> FALSE]
  /\ expired = [r \in Req |-> FALSE]
  /\ outstanding = [r \in Req |-> 0]
  /\ identity = TestUser
  /\ user = [r \in Req |-> NoUser]
  /\ servers = [r \in Req |-> <<>>]
  /\ server = [r \in Req |-> [id \in ServerIDSet |-> NewServer(id)]]
  /\ targets = [r \in Req |-> <<>>]
  /\ pos = [r \in Req |-> 0]
  /\ ok = [r \in Req |-> FALSE]
  /\ obs = [r \in Req |-> <<>>]
  /\ calls = [r \in Req |-> <<>>]
  /\ phase = "serving"
  /\ flag = FormatServerIDs(serverIDs)
  /\ descs = <<>>
  /\ last = "none"
  /\ health = <<>>
  /\ atSignal = {}
  /\ shutdownCtx = <<>>
  /\ pending = {}

\* Runs one after the other, successful, degraded or cancelled, with
\* requests turned away in between.
SpecRuns == InitRuns /\ [][Next]_vars

\* The steps of the handler of request r once it holds the gate.
RunStep(r) ==
  \/ FetchUserInfo(r)
  \/ FetchServers(r)
  \/ selectStep(r)
  \/ pingTest(r)
  \/ downloadTest(r)
  \/ uploadTest(r)
  \/ CollectWithContext(r)
  \/ Unlock(r)

\* Every collaborator call returns and the goroutine of a handler is
\* scheduled: a handler that can take its next step takes it.  Nothing is
\* assumed about the arrival of requests or about cancellations.
Fairness == \A r \in Req : WF_vars(RunStep(r))

SpecLive == InitRuns /\ [][Next]_vars /\ Fairness

\* An exporter with one identifier or with two, without fallback, whose
\* collaborators honour cancellation.
InitShutdown ==
  /\ Init
  /\ serverIDs \in {<<1>>, <<1, 2>>}
  /\ ~serverFallback
  /\ honourCtx

\* Concurrent scrapes of such an exporter, its health
\* checks, and the end of the process by a signal.
NextHealth ==
  \/ healthHandler
  \/ Signal
  \/ Shutdown
  \/ ShutdownReturn
  \/ ShutdownDeadline
  \/ \E r \in Req :
       \/ metricsHandler(r)
       \/ busyReturn(r)
       \/ RunStep(r)

SpecHealth == InitShutdown /\ [][NextHealth]_vars

\* Concurrent scrapes of such an exporter, clients that go
\* away, and the end of the process by a signal.
NextShutdown ==
  \/ Signal
  \/ Shutdown
  \/ ShutdownReturn
  \/ ShutdownDeadline
  \/ \E r \in Req :
       \/ metricsHandler(r)
       \/ busyReturn(r)
       \/ Cancel(r)
       \/ RunStep(r)

SpecShutdown == InitShutdown /\ [][NextShutdown]_vars

\* One client, collaborators that honour cancellation, and the time bound
\* of the server.
NextDeadline ==
  \/ WriteTimeout(1)
  \/ NextScrape

SpecDeadline == InitCtxAware /\ [][NextDeadline]_vars

\* The start of the process and the first request it answers.
NextParse ==
  \/ main
  \/ metricsHandler(1)

SpecParse == InitParse /\ [][NextParse]_vars

\* ------------------------------------------------- derived observations

Range(s) == {s[i] : i \in DOMAIN s}

\* Registry.Gather rejects a collection in which two metrics have the same
\* name and the same label values.
Inconsistent(o) ==
  \E i, j \in 1..Len(o) :
    i < j /\ o[i].metric = o[j].metric /\ o[i].labels = o[j].labels

\* The answer the handler has written for request r, 0 while there is none:
\* 503 from the gate, otherwise what promhttp.HandlerFor(reg, HandlerOpts{})
\* answers for the collected run, 500 when the gathering reports an error.
Status(r) ==
  IF pc[r] = "rejected" THEN StatusBusy
  ELSE IF pc[r] = "served"
       THEN IF Inconsistent(obs[r]) THEN StatusServerError ELSE StatusOK
  ELSE 0

\* The metric families in the order of their names: download_speed...,
\* latency_seconds, scrape_duration_seconds, up, upload_speed...
FamiliesByName == <<"download", "latency", "duration", "up", "upload">>
FamilyRank(metric) == CHOOSE i \in 1..5 : FamiliesByName[i] = metric

\* The order of the characters of a decimal number: "-" before the digits.
CharRank(c) == IF c = "-" THEN 0 ELSE DigitVal(c) + 1

\* The order of two decimal numbers as strings, byte by byte.
RECURSIVE StrLess(_, _)
StrLess(a, b) ==
  IF Len(b) = 0 THEN FALSE
  ELSE IF Len(a) = 0 THEN TRUE
  ELSE IF Head(a) # Head(b) THEN CharRank(Head(a)) < CharRank(Head(b))
  ELSE StrLess(Tail(a), Tail(b))

\* The order Registry.Gather gives two metrics: by family name, then by
\* label values.  Within a family the metrics of a run differ in the
\* server_id label only.
GatherBefore(x, y) ==
  \/ FamilyRank(x.metric) < FamilyRank(y.metric)
  \/ /\ x.metric = y.metric
     /\ StrLess(Itoa(x.id), Itoa(y.id))

\* Registry.Gather: the collected metrics grouped in families and sorted.
RECURSIVE Gather(_)
Gather(o) ==
  IF Len(o) = 0 THEN <<>>
  ELSE LET rest == Gather(Tail(o))
           n    == Cardinality({i \in 1..Len(rest) : GatherBefore(rest[i], Head(o))})
       IN SubSeq(rest, 1, n) \o <<Head(o)>> \o SubSeq(rest, n + 1, Len(rest))

\* The observations in the body of the answer, as promhttp encodes what
\* Gather returns: none in an error answer.
Body(r) == IF Status(r) = StatusOK THEN Gather(obs[r]) ELSE <<>>

Holders == {r \in Req : pc[r] \in Holding}

Stages == <<"PingTest", "DownloadTest", "UploadTest">>
StageMetrics == <<"latency", "download", "upload">>

Count(o, metric) == Cardinality({i \in 1..Len(o) : o[i].metric = metric})

IsStageCall(c) == \E i \in 1..3 : c.op = Stages[i]
StageCalls(r) == SelectSeq(calls[r], IsStageCall)

IsTargetObs(o) == \E i \in 1..3 : o.metric = StageMetrics[i]
TargetObs(r) == SelectSeq(obs[r], IsTargetObs)

\* Position of a per-target observation in the order target by target,
\* latency then download then upload.
Rank(o) == 3 * o.pos + (CHOOSE i \in 1..3 : o.metric = StageMetrics[i])

Called(r, op, k) == \E c \in Range(calls[r]) : c.op = op /\ c.pos = k
Succeeded(r, op, k) == Call(op, k, "ok") \in Range(calls[r])
Failed(r, op, k) == Call(op, k, "err") \in Range(calls[r])

\* Identity fetch, candidate fetch and selection succeeded, and so did every
\* stage on every selected target.
AllSucceeded(r) ==
  /\ Succeeded(r, "FetchUserInfo", 0)
  /\ Succeeded(r, "FetchServers", 0)
  /\ Succeeded(r, "selectServers", 0)
  /\ \A k \in 1..Len(targets[r]) : \A i \in 1..3 : Succeeded(r, Stages[i], k)

UpIs(r, v) == \E o \in Range(obs[r]) : o.metric = "up" /\ o.val = v

Degraded == <<Obs("up", 0, 0, 0, <<>>), Obs("duration", 0, 0, 0, <<>>)>>

\* The run is past its selection step.
PastSelect(r) == pc[r] \in {"pingTest", "downloadTest", "uploadTest", "emit", "served"}

\* Every identifier lookup the run made returned candidates without error.
LookupsOK(r) == \A c \in Range(calls[r]) : c.op = "FindServer" => c.res = "ok"

\* The run holds an observation of the metric for the target at position k.
Observed(r, metric, k) == \E o \in Range(obs[r]) : o.metric = metric /\ o.pos = k

\* The (target position, stage) pairs of the run whose stage succeeded.
SucceededPairs(r) ==
  {p \in (1..Len(targets[r])) \X (1..3) : Succeeded(r, Stages[p[2]], p[1])}

\* The program positions of the three stages, in order.
StagePcs == <<"pingTest", "downloadTest", "uploadTest">>

\* The stage request r is about to run, 0 when it is not at a stage.
StageAt(r) == IF \E i \in 1..3 : pc[r] = StagePcs[i]
              THEN CHOOSE i \in 1..3 : pc[r] = StagePcs[i]
              ELSE 0

\* Where a run at stage i goes next, whatever the stage's result.
AfterStage(r, i) ==
  IF i < 3 THEN [pc |-> StagePcs[i + 1], pos |-> pos[r]] ELSE afterUpload(r)

\* The run fetched a candidate list.
Fetched(r) == Succeeded(r, "FetchServers", 0)

\* --------------------------------------------------------------- claims

\* C1: under any interleaving of /metrics requests at most one request holds
\* the gate, so at most one orchestration run is executing, and the mutex is
\* locked exactly while some request holds it.
C1_AtMostOneHolder ==
  /\ Cardinality(Holders) <= 1
  /\ mu = (Holders # {})

\* C1 witness: a run is in its download stage while a concurrent request is
\* being answered.
C1_Witness ==
  \E r, q \in Req : r # q /\ pc[r] = "downloadTest" /\ pc[q] = "rejected"

\* C2: a request that arrives while the gate is held is rejected in its
\* arrival step with 503; it changes neither the mutex, nor any release or
\* acquisition count, nor any call or observation, nor any other request, and
\* from the rejected state it can only return.
C2_BusyRejectedImmediately ==
  [][\A r \in Req :
       /\ (pc[r] = "idle" /\ mu /\ pc'[r] # "idle")
            => /\ pc'[r] = "rejected"
               /\ Status(r)' = StatusBusy
               /\ mu'
               /\ UNCHANGED <<outstanding, calls, obs, servers, targets>>
               /\ \A q \in Req \ {r} : pc'[q] = pc[q]
       /\ (pc[r] = "rejected" /\ pc'[r] # "rejected")
            => /\ pc'[r] = "idle"
               /\ UNCHANGED <<mu, outstanding, calls, obs, servers, targets>>
               /\ \A q \in Req \ {r} : pc'[q] = pc[q]
    ]_vars

\* C2 witness: a request has been rejected while the holder, which has
\* already made five collaborator calls, is about to run its upload stage.
C2_Witness ==
  \E r, q \in Req :
    /\ r # q
    /\ Status(r) = StatusBusy
    /\ pc[q] = "uploadTest" /\ Len(calls[q]) = 5
    /\ calls[r] = <<>> /\ mu

\* C3: every successful acquisition is released exactly once, when the
\* handler returns, whatever the run's outcome: a request has one acquisition
\* outstanding exactly while it is in its guarded run, none otherwise, and
\* the only step that releases is the return of a request that holds.
C3_ReleaseExactlyOnce ==
  /\ [](\A r \in Req : outstanding[r] = IF pc[r] \in Holding THEN 1 ELSE 0)
  /\ [][\A r \in Req :
          /\ outstanding'[r] < outstanding[r]
               => pc[r] = "served" /\ pc'[r] = "idle" /\ mu /\ ~mu'
          /\ (mu /\ ~mu') => \E q \in Req : outstanding'[q] < outstanding[q]
       ]_vars

\* C3 witness: the gate is free again and nobody holds it although a request
\* is still being told that a scrape is in progress: the holder has released.
C3_Witness ==
  \E r \in Req :
    /\ pc[r] = "rejected"
    /\ ~mu
    /\ \A q \in Req : outstanding[q] = 0

\* C4: a run that has returned has emitted exactly one up and exactly one
\* scrape-duration observation, whatever happened; before that, none.
C4_OneUpOneDuration ==
  \A r \in Req :
    /\ pc[r] = "served" => Count(obs[r], "up") = 1 /\ Count(obs[r], "duration") = 1
    /\ pc[r] # "served" => Count(obs[r], "up") = 0 /\ Count(obs[r], "duration") = 0

\* C4 witness: a cancelled run with a failed stage and a successful one has
\* returned.
C4_Witness ==
  \E r \in Req :
    /\ pc[r] = "served" /\ ctxDone[r]
    /\ Failed(r, "UploadTest", 1)
    /\ Count(obs[r], "latency") = 1

\* C5: the up observation is 1 exactly when identity fetch, candidate fetch
\* and selection succeeded and all three stages succeeded on every selected
\* target, and 0 otherwise.
C5_UpIffAllSucceeded ==
  \A r \in Req :
    pc[r] = "served" =>
      /\ UpIs(r, 1) <=> AllSucceeded(r)
      /\ UpIs(r, 0) <=> ~AllSucceeded(r)

\* C5 witness: two targets, the only failure is the download of the first.
C5_Witness ==
  \E r \in Req :
    /\ pc[r] = "served" /\ Len(targets[r]) = 2
    /\ Failed(r, "DownloadTest", 1)
    /\ Succeeded(r, "PingTest", 1) /\ Succeeded(r, "UploadTest", 1)
    /\ \A i \in 1..3 : Succeeded(r, Stages[i], 2)
    /\ UpIs(r, 0)

\* C6: once selection has succeeded, each of the three stages is attempted
\* on every selected target, whatever the outcome of earlier stages.
C6_AllStagesAttempted ==
  \A r \in Req :
    (pc[r] \in {"emit", "served"} /\ Succeeded(r, "selectServers", 0)) =>
      /\ Len(targets[r]) >= 1
      /\ \A k \in 1..Len(targets[r]) : \A i \in 1..3 : Called(r, Stages[i], k)

\* C6 witness: every stage of the first target failed and the upload of the
\* second target was still attempted.
C6_Witness ==
  \E r \in Req :
    /\ pc[r] = "served"
    /\ \A i \in 1..3 : Failed(r, Stages[i], 1)
    /\ Called(r, "UploadTest", 2)

\* C7: the stage calls of a run are latency, download, upload of the first
\* selected target, then of the second, and so on, and the per-target
\* observations come in that same order, each carrying the identifier of the
\* target at its position in the selection.
C7_FixedOrder ==
  \A r \in Req :
    LET sc == StageCalls(r)
        to == TargetObs(r)
    IN /\ \A i \in 1..Len(sc) :
            /\ sc[i].op = Stages[((i - 1) % 3) + 1]
            /\ sc[i].pos = ((i - 1) \div 3) + 1
       /\ \A i \in 1..Len(to) :
            /\ i > 1 => Rank(to[i - 1]) < Rank(to[i])
            /\ to[i].pos \in 1..Len(targets[r])
            /\ to[i].id = targets[r][to[i].pos]
            /\ Succeeded(r, Stages[Rank(to[i]) - 3 * to[i].pos], to[i].pos)

\* C7 witness: a run over two different targets has made its six stage
\* calls and emitted observations for both.
C7_Witness ==
  \E r \in Req :
    /\ pc[r] = "served"
    /\ Len(StageCalls(r)) = 6
    /\ Len(targets[r]) = 2 /\ targets[r][1] # targets[r][2]
    /\ Len(TargetObs(r)) >= 4

\* C8: when the identity fetch fails nothing else is called (no candidate
\* fetch, no selection, no stage) and the run emits exactly up=0 and the
\* scrape duration.
C8_IdentityFailure ==
  \A r \in Req :
    Failed(r, "FetchUserInfo", 0) =>
      /\ calls[r] = <<Call("FetchUserInfo", 0, "err")>>
      /\ pc[r] \in {"emit", "served"}
      /\ obs[r] = IF pc[r] = "served" THEN Degraded ELSE <<>>

\* C8 witness: a run whose identity fetch failed has returned.
C8_Witness ==
  \E r \in Req : pc[r] = "served" /\ Failed(r, "FetchUserInfo", 0) /\ ~ctxDone[r]

\* C9: when the candidate fetch fails after a successful identity fetch, no
\* selection and no stage follow and the run emits exactly up=0 and the
\* scrape duration.
C9_CandidateFailure ==
  \A r \in Req :
    Failed(r, "FetchServers", 0) =>
      /\ calls[r] = <<Call("FetchUserInfo", 0, "ok"), Call("FetchServers", 0, "err")>>
      /\ pc[r] \in {"emit", "served"}
      /\ StageCalls(r) = <<>>
      /\ obs[r] = IF pc[r] = "served" THEN Degraded ELSE <<>>

\* C9 witness: a run whose candidate fetch failed has returned.
C9_Witness ==
  \E r \in Req : pc[r] = "served" /\ Failed(r, "FetchServers", 0) /\ ~ctxDone[r]

\* C10: selection on an empty candidate list fails for the configured
\* request, whatever it is, and a run that fetched an empty list calls no
\* stage and emits exactly up=0 and the scrape duration.
C10_EmptyCandidates ==
  /\ \A modes \in [1..Len(serverIDs) -> FindModes] :
       selectServers(<<>>, serverIDs, serverFallback, modes).err
  /\ \A r \in Req :
       (Succeeded(r, "FetchServers", 0) /\ servers[r] = <<>>
          /\ pc[r] \notin {"selectServers"}) =>
         /\ Failed(r, "selectServers", 0)
         /\ StageCalls(r) = <<>>
         /\ pc[r] \in {"emit", "served"}
         /\ obs[r] = IF pc[r] = "served" THEN Degraded ELSE <<>>

\* C10 witness: a run configured with an explicit identifier and fallback
\* enabled fetched an empty list and has returned.
C10_Witness ==
  \E r \in Req :
    /\ pc[r] = "served"
    /\ Succeeded(r, "FetchServers", 0) /\ servers[r] = <<>>
    /\ serverFallback /\ serverIDs[1] # Sentinel

\* C11: for a request made of the sentinel alone and a non-empty candidate
\* list, selection succeeds with exactly one target, the first element of
\* the list as fetched, whatever the fallback flag and without any
\* identifier lookup; the selection step leaves the candidate list as it is.
C11_SentinelPicksFirst ==
  /\ [](\A r \in Req :
          (serverIDs = <<Sentinel>> /\ Fetched(r) /\ servers[r] # <<>>
             /\ pc[r] # "selectServers") =>
            /\ Succeeded(r, "selectServers", 0)
            /\ targets[r] = <<servers[r][1]>>
            /\ \A c \in Range(calls[r]) : c.op # "FindServer")
  /\ [][\A r \in Req : pc[r] = "selectServers" => servers'[r] = servers[r]]_vars

\* C11 witness: fallback disabled, the sentinel alone, and a fetched list
\* whose first element is not the smallest identifier.
C11_Witness ==
  \E r \in Req :
    /\ pc[r] = "served" /\ serverIDs = <<Sentinel>> /\ ~serverFallback
    /\ servers[r] = <<2, 1>> /\ targets[r] = <<2>>

\* C12: with fallback disabled, when every requested identifier is in the
\* candidate list and every lookup returns, selection succeeds and the
\* targets are the requested identifiers, one per request entry, in request
\* order.
C12_ExactMatches ==
  \A r \in Req :
    (~serverFallback /\ Fetched(r) /\ PastSelect(r) /\ LookupsOK(r)
       /\ \A i \in 1..Len(serverIDs) : serverIDs[i] \in Range(servers[r])) =>
      /\ Succeeded(r, "selectServers", 0)
      /\ targets[r] = serverIDs

\* C12 witness: two identifiers requested in the order opposite to the
\* candidate list's.
C12_Witness ==
  \E r \in Req :
    /\ pc[r] = "served" /\ ~serverFallback
    /\ serverIDs = <<2, 1>> /\ servers[r] = <<1, 2>> /\ targets[r] = <<2, 1>>

\* C13: with fallback disabled, when some requested identifier is not in
\* the candidate list, selection fails as a whole: no target is selected,
\* no stage is called and the run emits exactly up=0 and the scrape
\* duration.
C13_MissingWithoutFallback ==
  \A r \in Req :
    (~serverFallback /\ serverIDs # <<Sentinel>> /\ Fetched(r) /\ PastSelect(r)
       /\ \E i \in 1..Len(serverIDs) : serverIDs[i] \notin Range(servers[r])) =>
      /\ Failed(r, "selectServers", 0)
      /\ targets[r] = <<>>
      /\ StageCalls(r) = <<>>
      /\ pc[r] \in {"emit", "served"}
      /\ obs[r] = IF pc[r] = "served" THEN Degraded ELSE <<>>

\* C13 witness: the first requested identifier is listed, the second is not.
C13_Witness ==
  \E r \in Req :
    /\ pc[r] = "served" /\ ~serverFallback
    /\ serverIDs = <<1, 2>> /\ servers[r] = <<1>>
    /\ Call("FindServer", 2, "ok") \in Range(calls[r])

\* C14: with fallback enabled and a non-empty candidate list, when every
\* lookup returns a candidate, selection succeeds: a listed identifier is
\* selected itself, an unlisted one is replaced by the first candidate, and
\* the run goes on to the stages of every target.
C14_FallbackSubstitutes ==
  \A r \in Req :
    (serverFallback /\ serverIDs # <<Sentinel>> /\ Fetched(r) /\ servers[r] # <<>>
       /\ PastSelect(r) /\ LookupsOK(r)) =>
      /\ Succeeded(r, "selectServers", 0)
      /\ Len(targets[r]) = Len(serverIDs)
      /\ \A i \in 1..Len(serverIDs) :
           targets[r][i] = IF serverIDs[i] \in Range(servers[r])
                           THEN serverIDs[i] ELSE servers[r][1]
      /\ pc[r] \in {"emit", "served"} =>
           \A k \in 1..Len(targets[r]) : \A i \in 1..3 : Called(r, Stages[i], k)

\* C14 witness: the requested identifier is not listed and the stages ran
\* on the substitute.
C14_Witness ==
  \E r \in Req :
    /\ pc[r] = "served" /\ serverFallback
    /\ serverIDs = <<2>> /\ servers[r] = <<1>> /\ targets[r] = <<1>>
    /\ Succeeded(r, "UploadTest", 1)

\* C15: for every selected target and each stage on its own, the run holds
\* an observation of the stage's metric for that target exactly when that
\* stage returned without error, whatever the other stages did.
C15_ObservationIffStageOK ==
  \A r \in Req : \A k \in 1..Len(targets[r]) : \A i \in 1..3 :
    Observed(r, StageMetrics[i], k) <=> Succeeded(r, Stages[i], k)

\* C15 witness: ping failed, download and upload succeeded: no latency
\* observation, both others present, up=0.
C15_Witness ==
  \E r \in Req :
    /\ pc[r] = "served" /\ Len(targets[r]) = 1
    /\ Failed(r, "PingTest", 1)
    /\ ~Observed(r, "latency", 1)
    /\ Observed(r, "download", 1) /\ Observed(r, "upload", 1)
    /\ UpIs(r, 0)

\* C16: a run that has returned holds two observations plus one per
\* (target, stage) pair whose stage succeeded; with every stage of N targets
\* successful that is 3N+2 and up=1.
C16_ObservationCount ==
  \A r \in Req :
    pc[r] = "served" =>
      /\ Len(obs[r]) = 2 + Cardinality(SucceededPairs(r))
      /\ AllSucceeded(r) => Len(obs[r]) = 3 * Len(targets[r]) + 2 /\ UpIs(r, 1)

\* C16 witness: two targets, the only failure is the latency stage of the
\* second: seven observations, three of them of the first target, up=0.
C16_Witness ==
  \E r \in Req :
    /\ pc[r] = "served" /\ Len(targets[r]) = 2 /\ targets[r][1] # targets[r][2]
    /\ Failed(r, "PingTest", 2)
    /\ Cardinality(SucceededPairs(r)) = 5
    /\ \A i \in 1..3 : Observed(r, StageMetrics[i], 1)
    /\ Len(obs[r]) = 7 /\ UpIs(r, 0)

\* C17: with collaborators that honour cancellation, a run whose context is
\* already cancelled when it starts makes one call, the identity fetch,
\* which fails; no candidate fetch, no selection and no stage follow, and
\* the run emits exactly up=0 and the scrape duration.
C17_CancelledAtStart ==
  /\ [][\A r \in Req :
         (ctxDone[r] /\ pc[r] = "FetchUserInfo" /\ pc'[r] # pc[r]) =>
           /\ calls'[r] = <<Call("FetchUserInfo", 0, "err")>>
           /\ pc'[r] = "emit"
           /\ obs'[r] = <<>>]_vars
  /\ [](\A r \in Req :
          (ctxDone[r] /\ pc[r] = "served"
             /\ calls[r] = <<Call("FetchUserInfo", 0, "err")>>) =>
            /\ obs[r] = Degraded
            /\ StageCalls(r) = <<>>)

\* C17 witness: a run cancelled before its first call has returned.
C17_Witness ==
  \E r \in Req :
    /\ pc[r] = "served" /\ ctxDone[r] /\ honourCtx
    /\ calls[r] = <<Call("FetchUserInfo", 0, "err")>>
    /\ obs[r] = Degraded

\* C18: with collaborators that honour cancellation, a stage that starts
\* when the context is cancelled fails and emits nothing, the run is marked
\* unhealthy and goes on to the next stage or target exactly as after any
\* stage; an unhealthy run stays unhealthy, attempts every stage of every
\* target and ends with up=0.
C18_CancelledStage ==
  /\ [][\A r \in Req :
         (StageAt(r) # 0 /\ pc'[r] # pc[r] /\ (ctxDone[r] \/ ~ok[r])) =>
           /\ ~ok'[r]
           /\ pc'[r] = AfterStage(r, StageAt(r)).pc
           /\ pos'[r] = AfterStage(r, StageAt(r)).pos
           /\ ctxDone[r] =>
                /\ calls'[r] = Append(calls[r], Call(Stages[StageAt(r)], pos[r], "err"))
                /\ obs'[r] = obs[r]]_vars
  /\ [](\A r \in Req :
          (pc[r] = "served" /\ Succeeded(r, "selectServers", 0)) =>
            /\ \A k \in 1..Len(targets[r]) : \A i \in 1..3 : Called(r, Stages[i], k)
            /\ ~ok[r] => UpIs(r, 0))

\* C18 witness: the context was cancelled after the latency stage of the
\* first of two targets succeeded; the five later stages were all attempted
\* and failed, and the run ended with up=0.
C18_Witness ==
  \E r \in Req :
    /\ pc[r] = "served" /\ ctxDone[r] /\ honourCtx /\ Len(targets[r]) = 2
    /\ Succeeded(r, "PingTest", 1)
    /\ Failed(r, "DownloadTest", 1) /\ Failed(r, "UploadTest", 1)
    /\ \A i \in 1..3 : Failed(r, Stages[i], 2)
    /\ Len(TargetObs(r)) = 1 /\ UpIs(r, 0)

\* C19: every request that acquired the gate and whose run has returned is
\* answered 200 with a body that holds the up and the scrape-duration
\* observation, whatever failed during the run.
C19_AlwaysAnswered ==
  \A r \in Req :
    pc[r] = "served" =>
      /\ Status(r) = StatusOK
      /\ Count(Body(r), "up") = 1
      /\ Count(Body(r), "duration") = 1

\* C20: every latency, download and upload observation of a run carries
\* ten label values: the caller's latitude, longitude, address and provider,
\* then the target's latitude, longitude, identifier, name and country, then
\* the distance; they are those of the target as it was selected, so the
\* observations of one target carry the same labels although each stage has
\* written its measurement into the target in between.
C20_SameLabels ==
  \A r \in Req : \A o \in Range(obs[r]) :
    IsTargetObs(o) =>
      LET u == user[r]
          n == NewServer(targets[r][o.pos])
      IN /\ o.labels = <<u.Lat, u.Lon, u.IP, u.Isp,
                         n.Lat, n.Lon, targets[r][o.pos], n.Name, n.Country,
                         FormatDistance(n.Distance)>>
         /\ \A q \in Range(obs[r]) :
              (IsTargetObs(q) /\ q.pos = o.pos) => q.labels = o.labels

\* C20 witness: the three stages have written latency and both rates into
\* the first target of a returned run, and its three observations are
\* labelled with the caller of the tests, identifier 1 and distance 123.
C20_Witness ==
  \E r \in Req :
    /\ pc[r] = "served" /\ targets[r] = <<1, 2>>
    /\ server[r][1].Latency # 0 /\ server[r][1].DLSpeed # 0 /\ server[r][1].ULSpeed # 0
    /\ \A i \in 1..3 :
         \E o \in Range(obs[r]) :
           /\ o.metric = StageMetrics[i] /\ o.pos = 1
           /\ o.labels[3] = "1.2.3.4" /\ o.labels[7] = 1 /\ o.labels[10] = 123
    /\ \E o \in Range(obs[r]) : o.pos = 2 /\ o.labels[7] = 2 /\ o.labels[10] = 123

\* -------------------------------------------------------------- C24, C25

\* The parts of a flag value between its commas, each without the spaces
\* around it, and those of them that are not empty.
Parts(s) == [k \in 1..Len(Split(s)) |-> TrimSpace(Split(s)[k])]
Given(s) == SelectSeq(Parts(s), LAMBDA p : p # <<>>)

\* A decimal integer: an optional sign and one digit or more.
IsInteger(p) ==
  \E n \in 1..Len(p) :
    /\ n = 1 \/ (n = 2 /\ Len(p) >= 2)
    /\ n = 2 => p[1] \in {"-", "+"}
    /\ \A i \in n..Len(p) : IsDigit(p[i])

\* A well-formed flag value: one non-empty part at least, all integers.
WellFormed(s) ==
  /\ Given(s) # <<>>
  /\ \A k \in 1..Len(Given(s)) : IsInteger(Given(s)[k])

RECURSIVE Join(_)
Join(ps) ==
  IF Len(ps) = 0 THEN <<>>
  ELSE IF Len(ps) = 1 THEN ps[1]
  ELSE ps[1] \o <<",">> \o Join(Tail(ps))

\* C24: on a well-formed flag value the process serves, unless its
\* listener could not be opened and it has exited without a request, and
\* the list the exporter is configured with -- the one a request reads --
\* is never empty
\* and has one identifier for each non-empty part, in the order in which
\* they were written: written back in decimal and joined by commas it is
\* the flag value without its spaces and empty parts, so the sentinel and
\* duplicates are kept.
C24_ParsedInOrder ==
  (phase # "boot" /\ WellFormed(flag)) =>
    /\ \/ phase = "serving"
       \/ phase = "exited" /\ ~mu /\ \A r \in Req : pc[r] = "idle"
    /\ serverIDs # <<>>
    /\ Len(serverIDs) = Len(Given(flag))
    /\ FormatServerIDs(serverIDs) = Join(Given(flag))

\* The flag value " 1,,1": a space, an empty part and a duplicate; the
\* first request runs with <<1, 1>>.
C24_Witness ==
  /\ flag = <<" ", "1", ",", ",", "1">>
  /\ WellFormed(flag)
  /\ phase = "serving"
  /\ serverIDs = <<1, 1>>
  /\ pc[1] = "FetchUserInfo"

\* C25: a flag value that is empty or blank, that has only empty parts, or
\* that has a part which is not an integer, is an error of parseServerIDs
\* that returns no identifier; the process exits without an exporter and
\* no request is ever accepted.
C25_ErrorExits ==
  (phase # "boot" /\ ~WellFormed(flag)) =>
    /\ parseServerIDs(flag) = [err |-> TRUE, ids |-> <<>>]
    /\ phase = "exited"
    /\ serverIDs = <<>>
    /\ ~mu
    /\ \A r \in Req : pc[r] = "idle"

\* The flag value "1,x", whose second part is not an integer: exited.
C25_Witness ==
  /\ flag = <<"1", ",", "x">>
  /\ ~WellFormed(flag)
  /\ phase = "exited"
  /\ serverIDs = <<>>

\* ------------------------------------------------------------------ C22

\* What a call of Describe leaves alone: the gate, the requests, the
\* collaborator calls, the observations and the configuration.
DescribeFrame ==
  <<config, phase, flag, last, health, atSignal, shutdownCtx, pending,
    identity, mu, pc, ctxDone, expired, outstanding,
    user, servers, server, targets, pos, ok, obs, calls>>

\* C22: whenever Describe has been called, however often and whatever the
\* runs before, it has sent the same five descriptors in the same order --
\* up and scrape duration without labels, latency, upload and download
\* with the ten target labels.  A call changes nothing else: the call a
\* handler makes when it registers its collector comes with no collaborator
\* call and no observation, and the gate is as TryLock has left it; a
\* call outside a handler changes nothing but the descriptors sent.
C22_DescribeIdempotent ==
  /\ [](descs # <<>> =>
          /\ Len(descs) = 5
          /\ descs[1] = [fqName |-> "speedtest_up",
                         variableLabels |-> <<>>]
          /\ descs[2] = [fqName |-> "speedtest_scrape_duration_seconds",
                         variableLabels |-> <<>>]
          /\ descs[3].fqName = "speedtest_latency_seconds"
          /\ descs[4].fqName = "speedtest_upload_speed_bytes_per_second"
          /\ descs[5].fqName = "speedtest_download_speed_bytes_per_second"
          /\ \A i \in 3..5 : descs[i].variableLabels = targetLabels)
  /\ [][\A r \in Req :
         (pc[r] = "idle" /\ pc'[r] = "FetchUserInfo") =>
           /\ descs' = <<up, scrapeDurationSeconds, latency, upload, download>>
           /\ mu' /\ ~mu
           /\ UNCHANGED <<obs, calls, user, servers, server, targets>>]_vars
  /\ [][(descs' # descs /\ UNCHANGED pc) => UNCHANGED DescribeFrame]_vars
  /\ [][descs # <<>> => descs' = descs]_vars

\* Describe has been called by the handler that holds the gate, whose run
\* has emitted two observations since.
C22_Witness ==
  /\ Len(descs) = 5
  /\ mu
  /\ pc[1] = "uploadTest"
  /\ Len(obs[1]) = 2

\* ------------------------------------------------------------------ C23

\* C23: every per-target observation of a run carries what its stage
\* wrote to the target in this run, which is what the runner in use holds
\* for that server: download and upload the target's rate as it is,
\* latency the target's duration in seconds.
C23_ObservationValues ==
  \A i \in 1..Len(obs[1]) :
    LET o   == obs[1][i]
        srv == server[1][o.id]
    IN
    /\ o.metric = "download" =>
         /\ o.val = srv.DLSpeed
         /\ o.val = runner[o.id].dlSpeed
         /\ Call("DownloadTest", o.pos, "ok") \in Range(calls[1])
    /\ o.metric = "upload" =>
         /\ o.val = srv.ULSpeed
         /\ o.val = runner[o.id].ulSpeed
         /\ Call("UploadTest", o.pos, "ok") \in Range(calls[1])
    /\ o.metric = "latency" =>
         /\ o.val.num = srv.Latency
         /\ o.val.num = runner[o.id].latency
         /\ o.val.den = 1000000000
         /\ Call("PingTest", o.pos, "ok") \in Range(calls[1])

\* Two targets and a runner without values for server 2: the stages of
\* server 1 were observed as 10 ms = 1/100 s, 100000000 and 50000000 bytes
\* per second, the rates of server 2 as 0.
C23_Witness ==
  /\ pc[1] = "served"
  /\ targets[1] = <<1, 2>>
  /\ runner[2] = mockRunner
  /\ \E i, j, k, m, n \in 1..Len(obs[1]) :
       /\ obs[1][i].metric = "latency" /\ obs[1][i].id = 1
       /\ obs[1][i].val = Seconds(10000000)
       /\ obs[1][i].val.num * 100 = obs[1][i].val.den
       /\ obs[1][j].metric = "download" /\ obs[1][j].id = 1
       /\ obs[1][j].val = 100000000
       /\ obs[1][k].metric = "upload" /\ obs[1][k].id = 1
       /\ obs[1][k].val = 50000000
       /\ obs[1][m].metric = "download" /\ obs[1][m].id = 2
       /\ obs[1][m].val = 0
       /\ obs[1][n].metric = "upload" /\ obs[1][n].id = 2
       /\ obs[1][n].val = 0

\* ------------------------------------------------------------------ C28

\* The run made an identifier lookup that returned an error or no server.
LookupMissed(r) ==
  \E c \in Range(calls[r]) : c.op = "FindServer" /\ c.res \in {"err", "none"}

\* C28: lookups are made only for explicit identifiers on a non-empty
\* candidate list, and a run one of whose lookups returned an error or no
\* server has a failed selection whatever the fallback flag: no target, no
\* stage, and the degraded answer.
C28_MissingResultFails ==
  /\ (\E c \in Range(calls[1]) : c.op = "FindServer") =>
       servers[1] # <<>> /\ serverIDs # <<Sentinel>>
  /\ (PastSelect(1) /\ LookupMissed(1)) =>
       /\ Failed(1, "selectServers", 0)
       /\ ~Succeeded(1, "selectServers", 0)
       /\ targets[1] = <<>>
       /\ StageCalls(1) = <<>>
       /\ pc[1] \in {"emit", "served"}
       /\ pc[1] = "served" => obs[1] = Degraded

\* With fallback enabled the lookup of the only identifier returned no
\* server: the run is served degraded.
C28_Witness ==
  /\ serverFallback
  /\ Len(serverIDs) = 1
  /\ Call("FindServer", 1, "none") \in Range(calls[1])
  /\ pc[1] = "served"
  /\ obs[1] = Degraded

\* ------------------------------------------------------------------ C29

\* C29: after a successful selection the targets are as many as the
\* requested identifiers and in their order: the target at position k is
\* the candidate with the k-th identifier when there is one and the nearest
\* candidate otherwise, so an identifier named twice is selected twice;
\* and when the run returns the stage calls are the three stages on the
\* first target, then on the second, and so on, duplicates included.
C29_OrderKeptNoDedup ==
  (PastSelect(1) /\ Succeeded(1, "selectServers", 0)) =>
    /\ Len(targets[1]) = Len(serverIDs)
    /\ \A k \in 1..Len(serverIDs) :
         targets[1][k] = IF serverIDs[k] \in Range(servers[1])
                         THEN serverIDs[k] ELSE servers[1][1]
    /\ pc[1] \in {"emit", "served"} =>
         /\ Len(StageCalls(1)) = 3 * Len(serverIDs)
         /\ \A k \in 1..Len(serverIDs) : \A i \in 1..3 :
              /\ StageCalls(1)[3 * (k - 1) + i].op = Stages[i]
              /\ StageCalls(1)[3 * (k - 1) + i].pos = k

\* The request <<1, 1>>: the server 1 selected twice and measured twice.
C29_Witness ==
  /\ serverIDs = <<1, 1>>
  /\ targets[1] = <<1, 1>>
  /\ pc[1] = "served"
  /\ Len(StageCalls(1)) = 6
  /\ Count(obs[1], "download") = 2

\* ------------------------------------------------------------------ C30

\* The place of a collaborator call in the order of a run.
OpRank(op) ==
  CASE op = "FetchUserInfo" -> 1
    [] op = "FetchServers"  -> 2
    [] op = "FindServer"    -> 3
    [] op = "selectServers" -> 4
    [] OTHER                -> 5

CallCount(r, op) == Cardinality({i \in 1..Len(calls[r]) : calls[r][i].op = op})

\* The identity part of the labels of an observation.
IdentityLabels(u) == <<u.Lat, u.Lon, u.IP, u.Isp>>

\* C30: the calls of a run are in the order identity fetch, candidate
\* fetch, selection, stages; the identity is fetched exactly once by a run
\* that is past its first step and the candidates at most once, a stage is
\* called only after both fetches and the selection succeeded, and every
\* per-target observation of the run is labelled with the identity that
\* this one fetch returned, whatever the identity has become since.
C30_CallOrderOneSnapshot ==
  /\ \A i \in 1..(Len(calls[1]) - 1) :
       OpRank(calls[1][i].op) <= OpRank(calls[1][i + 1].op)
  /\ CallCount(1, "FetchUserInfo") <= 1
  /\ pc[1] \in (Holding \ {"FetchUserInfo"}) => CallCount(1, "FetchUserInfo") = 1
  /\ CallCount(1, "FetchServers") <= 1
  /\ CallCount(1, "selectServers") <= 1
  /\ StageCalls(1) # <<>> =>
       /\ Succeeded(1, "FetchUserInfo", 0)
       /\ Succeeded(1, "FetchServers", 0)
       /\ Succeeded(1, "selectServers", 0)
  /\ \A i \in 1..Len(obs[1]) :
       IsTargetObs(obs[1][i]) =>
         SubSeq(obs[1][i].labels, 1, 4) = IdentityLabels(user[1])

\* A run over two targets during which the identity changed: the six
\* observations carry the identity fetched at the start.
C30_Witness ==
  /\ pc[1] = "served"
  /\ Len(targets[1]) = 2
  /\ Len(TargetObs(1)) = 6
  /\ identity # user[1]
  /\ user[1] = TestUser

\* ------------------------------------------------------------------ C26

\* The requests whose run is at a measurement stage.
AtStage == {r \in Req : StageAt(r) # 0}

\* C26: at most one request is at a measurement stage at any time, and a
\* step that calls a stage calls one stage, for the one request that holds
\* the gate, while no other request is at a stage or makes any call.
C26_OneStageInFlight ==
  /\ [](Cardinality(AtStage) <= 1)
  /\ [][\A r \in Req :
         Len(StageCalls(r)') > Len(StageCalls(r)) =>
           /\ Len(StageCalls(r)') = Len(StageCalls(r)) + 1
           /\ AtStage = {r}
           /\ Holders = {r}
           /\ \A q \in Req \ {r} : calls'[q] = calls[q]]_vars

\* A run is about to start its upload, two stages done, while another
\* request is being turned away.
C26_Witness ==
  \E r, q \in Req :
    /\ r # q
    /\ pc[r] = "uploadTest"
    /\ Len(StageCalls(r)) = 2
    /\ pc[q] = "rejected"

\* ------------------------------------------------------------------ C27

\* C27: the scope of a run in progress is cancelled once the time bound
\* of its request has elapsed, whether the client is still connected or
\* not.
C27_ScopeBoundedInTime ==
  \A r \in Req : (expired[r] /\ pc[r] \in Holding \ {"served"}) => ctxDone[r]

\* ------------------------------------------------------------------ C21

\* The server structs a run starts with: nothing measured.
FreshServers == [id \in ServerIDSet |-> NewServer(id)]

\* The per-target observations that the stage calls of run r, from the
\* i-th call on, produce on the server structs srvs.
RECURSIVE Replay(_, _, _)
Replay(r, i, srvs) ==
  IF i > Len(calls[r]) THEN <<>>
  ELSE IF ~IsStageCall(calls[r][i]) THEN Replay(r, i + 1, srvs)
  ELSE LET c      == calls[r][i]
           id     == targets[r][c.pos]
           metric == StageMetrics[CHOOSE n \in 1..3 : Stages[n] = c.op]
           srv    == afterRun(runner[id], srvs[id], metric, c.res)
       IN (IF c.res = "ok"
           THEN <<Obs(metric, c.pos, id, StageValue(metric, srv),
                      labelValues(user[r], srv))>>
           ELSE <<>>)
          \o Replay(r, i + 1, [srvs EXCEPT ![id] = srv])

\* C21: a request that is not running holds nothing of an earlier run, so
\* every run starts as the first one did; the observations of a run are
\* those its own collaborator results produce on fresh server structs, its
\* up is 1 exactly when all of its own calls succeeded, however the run
\* before it ended; and no step changes the configuration.
C21_NoStateSurvives ==
  /\ [](\A r \in Req :
          /\ pc[r] \in {"idle", "rejected"} =>
               /\ calls[r] = <<>> /\ obs[r] = <<>>
               /\ user[r] = NoUser /\ servers[r] = <<>> /\ targets[r] = <<>>
               /\ server[r] = FreshServers /\ ~ok[r] /\ ~ctxDone[r]
          /\ TargetObs(r) = Replay(r, 1, FreshServers)
          /\ pc[r] = "served" =>
               /\ obs[r] = Replay(r, 1, FreshServers)
                            \o <<Obs("up", 0, 0, IF AllSucceeded(r) THEN 1 ELSE 0, <<>>),
                                 Obs("duration", 0, 0, 0, <<>>)>>
               /\ UpIs(r, 1) <=> AllSucceeded(r))
  /\ [][UNCHANGED <<serverIDs, serverFallback>>]_vars

\* The run before ended degraded, and this one is served with up = 1 and
\* its three observations while another request is turned away.
C21_Witness ==
  \E r, q \in Req :
    /\ r # q
    /\ last = "degraded"
    /\ pc[r] = "served"
    /\ UpIs(r, 1)
    /\ Len(TargetObs(r)) = 3
    /\ pc[q] = "rejected"

\* ------------------------------------------------------------------ C31

\* The calls of stage op on the target at position k made by run r.
StageCallCount(r, op, k) ==
  Cardinality({i \in 1..Len(calls[r]) : calls[r][i].op = op /\ calls[r][i].pos = k})

\* The observations of the metric for the target at position k held by r.
ObsCount(r, metric, k) ==
  Cardinality({i \in 1..Len(obs[r]) : obs[r][i].metric = metric /\ obs[r][i].pos = k})

\* C31: a run calls no stage twice on the same occurrence of a target,
\* whether the first call failed or not, and holds at most one
\* observation of each metric for it, none when the stage failed; when
\* the run returns after a successful selection every stage has been
\* called exactly once on every selected target.
C31_EachStageOnce ==
  /\ \A k \in 1..MaxIDs : \A i \in 1..3 :
       /\ StageCallCount(1, Stages[i], k) <= 1
       /\ ObsCount(1, StageMetrics[i], k) <= 1
       /\ Failed(1, Stages[i], k) => ObsCount(1, StageMetrics[i], k) = 0
       /\ StageCallCount(1, Stages[i], k) = 1 => k <= Len(targets[1])
  /\ pc[1] \in {"emit", "served"} =>
       \A k \in 1..Len(targets[1]) : \A i \in 1..3 :
         StageCallCount(1, Stages[i], k) = 1

\* A run over two targets whose first latency stage failed: it was not
\* called again, and the run went on to the five other stages.
C31_Witness ==
  /\ pc[1] = "served"
  /\ Len(targets[1]) = 2
  /\ Failed(1, "PingTest", 1)
  /\ StageCallCount(1, "PingTest", 1) = 1
  /\ Len(StageCalls(1)) = 6
  /\ Len(TargetObs(1)) = 5

\* ------------------------------------------------------------------ C32

\* Run r has emitted its up observation.
UpEmitted(r) == \E i \in 1..Len(obs[r]) : obs[r][i].metric = "up"

\* C32: as soon as a run holds an up observation, up and scrape duration
\* are its last two observations, in this order, everything before them
\* is per target, and the up value is that of all the calls of the run;
\* from then on the run calls no collaborator and emits nothing: the only
\* step left is the return of the handler.
C32_UpThenDurationLast ==
  /\ [](\A r \in Req :
          UpEmitted(r) =>
            /\ Len(obs[r]) >= 2
            /\ obs[r][Len(obs[r]) - 1].metric = "up"
            /\ obs[r][Len(obs[r])].metric = "duration"
            /\ \A i \in 1..(Len(obs[r]) - 2) : IsTargetObs(obs[r][i])
            /\ obs[r][Len(obs[r]) - 1].val = IF AllSucceeded(r) THEN 1 ELSE 0)
  /\ [][\A r \in Req :
         /\ UpEmitted(r) =>
              /\ obs'[r] = obs[r] \/ (obs'[r] = <<>> /\ pc'[r] = "idle")
              /\ calls'[r] = calls[r] \/ (calls'[r] = <<>> /\ pc'[r] = "idle")
         /\ (~UpEmitted(r) /\ UpEmitted(r)') =>
              /\ pc[r] = "emit" /\ pc'[r] = "served"
              /\ calls'[r] = calls[r]
              /\ SubSeq(obs'[r], 1, Len(obs[r])) = obs[r]
              /\ Len(obs'[r]) = Len(obs[r]) + 2]_vars

\* A run over two targets whose last upload failed: five observations per
\* target, then up = 0, then the duration.
C32_Witness ==
  \E r \in Req :
    /\ pc[r] = "served"
    /\ Len(targets[r]) = 2
    /\ Failed(r, "UploadTest", 2)
    /\ Len(obs[r]) = 7
    /\ obs[r][6] = Obs("up", 0, 0, 0, <<>>)
    /\ obs[r][7].metric = "duration"

\* ------------------------------------------------------------------ C33

\* C33: when every collaborator call returns, a request that holds the
\* gate comes to hold up and duration, and then its handler returns; the
\* mutex is free whenever no request holds the gate, and a request that
\* arrives then is accepted.
C33_RunEndsGateFreed ==
  /\ \A r \in Req :
       (pc[r] \in Holding) ~>
         (pc[r] = "served" /\ Count(obs[r], "up") = 1
                           /\ Count(obs[r], "duration") = 1)
  /\ \A r \in Req : (pc[r] = "served") ~> (pc[r] = "idle")
  /\ [](Holders = {} => ~mu)
  /\ [][\A r \in Req :
         (Holders = {} /\ pc[r] = "idle" /\ pc'[r] # "idle") =>
           (pc'[r] = "FetchUserInfo" /\ mu')]_vars

\* The run before ended degraded and released the gate; the request that
\* came after it has been accepted and has fetched the identity.
C33_Witness ==
  \E r \in Req :
    /\ last = "degraded"
    /\ pc[r] = "FetchServers"
    /\ mu
    /\ \A q \in Req \ {r} : pc[q] = "idle"

\* ------------------------------------------------------------------ C34

\* C34: the answer of /health is 200 with the body "OK" whenever there is
\* one, whether or not a scrape holds the gate; while the process serves
\* or shuts down, a /health request it has read can always be answered;
\* and the step that answers it changes
\* neither the mutex, nor any request, nor any call or observation.
C34_HealthAlwaysOK ==
  /\ [](\A i \in 1..Len(health) :
          health[i].status = 200 /\ health[i].body = "OK")
  /\ [](phase \in {"serving", "signalled", "draining"} =>
          ENABLED healthHandler)
  /\ [][health' # health =>
         UNCHANGED <<mu, pc, outstanding, calls, obs, ctxDone, user, servers,
                     server, targets, pos, ok, config, phase>>]_vars

\* /health was answered 200 while a run was in its download stage and
\* another request was being turned away.
C34_Witness ==
  \E r, q \in Req :
    /\ r # q
    /\ health = <<[status |-> 200, body |-> "OK", busy |-> TRUE]>>
    /\ pc[r] = "downloadTest"
    /\ pc[q] = "rejected"

\* ------------------------------------------------------------------ C35

\* C35, as stated: from the signal on, no request is accepted.
C35_StopsAtSignal ==
  [][phase # "serving" =>
       \A r \in Req : pc[r] = "idle" => pc'[r] = "idle"]_vars

\* C35: the signal changes nothing of the handlers in flight, their scope
\* included; main then starts a shutdown with a time limit of 60 seconds
\* per configured identifier and 10, which changes nothing of them either
\* and closes the listener; from then on the only requests accepted are
\* those of connections accepted before, once each; a handler in flight
\* can go on to its end; and the process ends without the limit having
\* passed only when every handler has returned and the gate is free.
C35_GracefulShutdown ==
  /\ [][(phase = "serving" /\ phase' # "serving") =>
         /\ phase' = "signalled"
         /\ atSignal' = {r \in Req : pc[r] \in Holding \ {"served"}}
         /\ UNCHANGED <<ctxDone, pc, mu, obs, calls, outstanding, ok>>]_vars
  /\ [][(phase = "signalled" /\ phase' # "signalled") =>
         /\ phase' = "draining"
         /\ shutdownCtx' = <<60 * Len(serverIDs) + 10>>
         /\ pending' \subseteq {r \in Req : pc[r] = "idle"}
         /\ UNCHANGED <<ctxDone, pc, mu, obs, calls, outstanding, ok>>]_vars
  /\ [][phase \notin {"serving", "signalled"} =>
         /\ pending' \subseteq pending
         /\ \A r \in Req :
              (pc[r] = "idle" /\ pc'[r] # "idle") =>
                (phase = "draining" /\ r \in pending /\ r \notin pending')]_vars
  /\ [](\A r \in Req :
          (phase \in {"signalled", "draining"} /\ pc[r] \in Holding) =>
            ENABLED RunStep(r))
  /\ [](phase = "stopped" => (~mu /\ \A r \in Req : pc[r] = "idle"))
  /\ [][(phase = "draining" /\ phase' # "draining") =>
         \/ phase' = "stopped" /\ \A r \in Req : pc[r] = "idle"
         \/ phase' = "killed" /\ \E r \in Req : pc[r] # "idle"]_vars

\* The signal arrived while a run was in progress and another client
\* had sent nothing: the run has gone on, uncancelled, to up = 1
\* and the duration while the listener was closed, and the request of the
\* other client, read after the signal, has been answered 503.
C35_Witness ==
  \E r, q \in Req :
    /\ phase = "draining"
    /\ shutdownCtx = <<70>>
    /\ r \in atSignal
    /\ pc[r] = "served"
    /\ ~ctxDone[r]
    /\ UpIs(r, 1)
    /\ Len(TargetObs(r)) = 3
    /\ q \notin atSignal
    /\ pc[q] = "rejected"

====
